---- MODULE Spec2Model ----
(***************************************************************************)
(* Verification model of the Mixtral decoder of EasyDel                    *)
(* (lib/python/EasyDel/modules/mixtral/modelling_mixtral_flax.py) and of   *)
(* its PyTorch server.                                                     *)
(*                                                                         *)
(* The specifications share the definitions:                               *)
(*   SpecMoE       : the sparse routing block (gate, softmax, top-k,       *)
(*                   dispatch mask, the per-expert gather / index-add      *)
(*                   loop);                                                *)
(*   SpecLoss      : jax_load_balancing_loss_func;                         *)
(*   Spec          : InitCache and the Forward wrapper called with a       *)
(*                   cache, down to the attention module's key/value cache *)
(*                   and mask construction;                                *)
(*   SpecTwo       : two sessions, each with its own cache, on one model   *)
(*                   and one parameter container;                          *)
(*   SpecPlain     : the Forward wrapper called without a cache;           *)
(*   SpecModule    : FlaxMixtralModule and FlaxMixtralForCausalLMModule    *)
(*                   applied directly (input check, diagnostic outputs,    *)
(*                   auxiliary loss);                                      *)
(*   SpecConstruct : construction of a model from a config;                *)
(*   SpecAttention : one attention module called directly, with the choice *)
(*                   between the flash and the dense path and the bias;    *)
(*   SpecLayer     : one decoder layer, statement by statement;            *)
(*   SpecGenerate  : the generation loop on prepare_inputs_for_generation  *)
(*                   and update_inputs_for_generation;                     *)
(*   SpecServe     : PyTorchServer (lib/python/EasyDel/serve/              *)
(*                   torch_serve.py): load, the request handlers, fire and *)
(*                   end; SpecServeFair adds that a join whose process has *)
(*                   exited returns.                                       *)
(*                                                                         *)
(* Tensors are abstracted to what the claims are about: indices, masks,    *)
(* shapes and exact rational weights.  exp(x) is modelled by 2^x (positive *)
(* and strictly monotone), floating point by exact rationals <<n, d>>.     *)
(* Indices are 0-based as in the source.                                   *)
(***************************************************************************)
EXTENDS Integers, Sequences, FiniteSets, TLC

VARIABLES
    moe_in,     \* inputs of one routing-block or loss call (config, logits, hidden)
    moe_out,    \* what the routing block or the loss function returned, or NoResult
    config,     \* the MixtralConfig the model was constructed with
    params,     \* the parameter container passed to Forward: its top-level keys
                \* (in SpecTwo with their values)
    sess,       \* per generation session: the cache it threads through Forward
    fwd,        \* the last InitCache / Forward call and what it returned
    server      \* the PyTorchServer object, its uvicorn process and the call in progress

moe_vars == <<moe_in, moe_out>>
fwd_vars == <<config, params, sess, fwd>>
vars == <<moe_in, moe_out, config, params, sess, fwd, server>>

(***************************************************************************)
(* Bounds of the model                                                     *)
(***************************************************************************)
MaxExperts == 3
MaxTokens == 2
LogitValues == {0, 1}
MaxLen == 2          \* longest cache (max_length) and longest uncached input
MaxQ == 2            \* most new positions in one cached Forward
MaxBatch == 1
MaxIndex == 3        \* cap on the write cursor, so the model stays finite
NumLayers == 1       \* num_hidden_layers
MaxLayers == 2       \* most decoder layers of a module called directly
MaxHidden == 4       \* largest hidden_size and head count of a config to construct

NoResult == [status |-> "none"]
NoServer == [status |-> "none"]

(***************************************************************************)
(* Exact rationals <<n, d>> with d > 0                                     *)
(***************************************************************************)
RECURSIVE Gcd(_, _)
Gcd(a, b) == IF b = 0 THEN a ELSE Gcd(b, a % b)
\* <<n, d>> in lowest terms (n >= 0, d > 0)
Rat(n, d) == LET g == Gcd(n, d) IN IF g = 0 THEN <<0, 1>> ELSE <<n \div g, d \div g>>
RatAdd(a, b) == Rat(a[1] * b[2] + b[1] * a[2], a[2] * b[2])
RatMul(a, b) == Rat(a[1] * b[1], a[2] * b[2])
RatDiv(a, b) == Rat(a[1] * b[2], a[2] * b[1])
RatEq(a, b) == a[1] * b[2] = b[1] * a[2]
RatLess(a, b) == a[1] * b[2] < b[1] * a[2]
RatZero == <<0, 1>>
RatOne == <<1, 1>>

RECURSIVE RatSumSeq(_)
RatSumSeq(s) == IF s = <<>> THEN RatZero ELSE RatAdd(Head(s), RatSumSeq(Tail(s)))

RECURSIVE Pow2(_)
Pow2(n) == IF n = 0 THEN 1 ELSE 2 * Pow2(n - 1)

RECURSIVE SumOver(_, _)
SumOver(f, S) ==
    IF S = {} THEN 0
    ELSE LET x == CHOOSE y \in S : TRUE IN f[x] + SumOver(f, S \ {x})

(***************************************************************************)
(* FlaxMixtralSparseMoeBlock.__call__                                      *)
(***************************************************************************)
\* jax.nn.softmax(router_logits, axis=1) of one token's row
softmax(row) ==
    LET den == SumOver([e \in DOMAIN row |-> Pow2(row[e])], DOMAIN row)
    IN [e \in DOMAIN row |-> <<Pow2(row[e]), den>>]

\* jax.lax.top_k of one row: the k largest values in descending order with
\* their indices; among equal values the lower index comes first
RECURSIVE top_k_from(_, _, _)
top_k_from(row, k, avail) ==
    IF k = 0 THEN <<>>
    ELSE LET best == CHOOSE e \in avail : \A f \in avail :
                         \/ RatLess(row[f], row[e])
                         \/ (RatEq(row[f], row[e]) /\ e <= f)
         IN <<best>> \o top_k_from(row, k - 1, avail \ {best})

\* a selection that draws with replacement: the best entry, k times
top_k_with_replacement(row, k) ==
    LET best == top_k_from(row, 1, DOMAIN row)[1]
    IN [values |-> [s \in 0..(k - 1) |-> row[best]],
        indices |-> [s \in 0..(k - 1) |-> best]]

top_k(row, k) ==
    LET idx == top_k_from(row, k, DOMAIN row)
    IN [values |-> [s \in 0..(k - 1) |-> row[idx[s + 1]]],
        indices |-> [s \in 0..(k - 1) |-> idx[s + 1]]]

RECURSIVE RatSumFn(_, _)
\* sum of w[0..n-1]
RatSumFn(w, n) == IF n = 0 THEN RatZero ELSE RatAdd(RatSumFn(w, n - 1), w[n - 1])

\* line 690: routing_weights /= jnp.sum(routing_weights, axis=-1, keepdims=True)
RenormalizeSkipped(w) == w
Renormalize(w) ==
    LET total == RatSumFn(w, Cardinality(DOMAIN w))
    IN [s \in DOMAIN w |-> RatDiv(w[s], total)]

\* line 692: jax.nn.one_hot(selected_experts, num_classes).transpose(2, 1, 0):
\* expert_mask[e][s][t] = 1 iff slot s of token t selected expert e
one_hot_transposed(selected_experts, E, k, T) ==
    [e \in 0..(E - 1) |-> [s \in 0..(k - 1) |-> [t \in 0..(T - 1) |->
        IF selected_experts[t][s] = e THEN 1 ELSE 0]]]

(***************************************************************************)
(* FlaxMixtralBLockSparseTop2MLP.__call__: w2(act(w1 x) * w3 x).  The      *)
(* learned weights are not modelled; an expert is a positive function of   *)
(* its input that differs between experts and between inputs.              *)
(***************************************************************************)
expert_layer(e, x) == 10 * (e + 1) + x

(***************************************************************************)
(* FlaxMixtralBlocKSparesTop2MLPCollection.__call__                        *)
(***************************************************************************)
\* jnp.nonzero(selected_mask, size=n): the (row, column) indices of the
\* non-zero entries in row-major order, cut or zero-padded to n entries
RECURSIVE nonzero_from(_, _, _, _)
nonzero_from(mask, k, T, n) ==
    IF n = k * T THEN <<>>
    ELSE LET s == n \div T
             t == n % T
             rest == nonzero_from(mask, k, T, n + 1)
         IN IF mask[s][t] # 0 THEN <<[idx |-> s, top_x |-> t]>> \o rest ELSE rest

nonzero(mask, k, T, size) ==
    LET found == nonzero_from(mask, k, T, 0)
    IN [i \in 1..size |-> IF i <= Len(found) THEN found[i] ELSE [idx |-> 0, top_x |-> 0]]

\* line 633: top_x = jnp.where(top_x != 0, top_x, -1)
where_nonzero_else_minus_one(top_x) == IF top_x # 0 THEN top_x ELSE -1

\* numpy indexing of an axis of length n: a negative index counts from the end
wrap_index(i, n) == IF i < 0 THEN i + n ELSE i

\* the loop storing current[i] in row top_x[i] in place of the sum: the last
\* write to a row is the one that stays
custom_index_set(final_hidden_states_, top_x_, idx_, current_hidden_states_) ==
    LET T == Cardinality(DOMAIN final_hidden_states_)
        writes(t) == {i \in 1..T : wrap_index(top_x_[i], T) = t}
    IN [t \in DOMAIN final_hidden_states_ |->
          IF writes(t) = {} THEN final_hidden_states_[t]
          ELSE current_hidden_states_[CHOOSE i \in writes(t) : \A n \in writes(t) : n <= i]]

\* the loop with its result kept: row top_x[i] grows by current[i] for every i
custom_index_add(final_hidden_states_, top_x_, idx_, current_hidden_states_) ==
    LET T == Cardinality(DOMAIN final_hidden_states_)
    IN [t \in DOMAIN final_hidden_states_ |->
          RatAdd(final_hidden_states_[t],
                 RatSumFn([i \in 0..(T - 1) |->
                              IF wrap_index(top_x_[i + 1], T) = t
                              THEN current_hidden_states_[i + 1] ELSE RatZero], T))]

\* lines 618-627: every final_hidden_states_.at[...].set(...) builds a new
\* array that is dropped; the argument is returned as it came in
custom_index_add_without_index_add(final_hidden_states_, top_x_, idx_, current_hidden_states_) ==
    final_hidden_states_

\* lines 630-639 for one expert: what is gathered, and the scaled expert output
expert_branch(e, expert_mask, hidden_states, routing_weights, k, T) ==
    LET nz == nonzero(expert_mask[e], k, T, T)
    IN [i \in 1..T |->
          LET top_x == where_nonzero_else_minus_one(nz[i].top_x)
              idx == nz[i].idx
              row == wrap_index(top_x, T)
          IN [top_x |-> top_x, idx |-> idx, row |-> row,
              current |-> RatMul(<<expert_layer(e, hidden_states[row]), 1>>,
                                 routing_weights[row][idx])]]

RECURSIVE experts_loop(_, _, _, _, _, _, _)
\* lines 629-646: the loop over the experts e..E-1, threading final_hidden_states
experts_loop(e, E, final, expert_mask, hidden_states, routing_weights, kT) ==
    IF e = E THEN final
    ELSE LET br == expert_branch(e, expert_mask, hidden_states, routing_weights, kT[1], kT[2])
             top_x == [i \in 1..kT[2] |-> br[i].top_x]
             idx == [i \in 1..kT[2] |-> br[i].idx]
             cur == [i \in 1..kT[2] |-> br[i].current]
         IN experts_loop(e + 1, E,
                         custom_index_add_without_index_add(final, top_x, idx, cur),
                         expert_mask, hidden_states, routing_weights, kT)

experts_call(expert_mask, hidden_states, routing_weights, E, k, T) ==
    experts_loop(0, E, [t \in 0..(T - 1) |-> RatZero],
                 expert_mask, hidden_states, routing_weights, <<k, T>>)

\* lines 684-700
SparseMoeBlock(in) ==
    LET E == in.num_local_experts
        k == in.num_experts_per_tok
        T == in.tokens
        sm == [t \in 0..(T - 1) |-> softmax(in.router_logits[t])]
        tk == [t \in 0..(T - 1) |-> top_k(sm[t], k)]
        routing_weights == [t \in 0..(T - 1) |-> Renormalize(tk[t].values)]
        selected_experts == [t \in 0..(T - 1) |-> tk[t].indices]
        expert_mask == one_hot_transposed(selected_experts, E, k, T)
    IN [status |-> "ok",
        routing_weights |-> routing_weights,
        selected_experts |-> selected_experts,
        expert_mask |-> expert_mask,
        gathered |-> [e \in 0..(E - 1) |->
                        expert_branch(e, expert_mask, in.hidden_states, routing_weights, k, T)],
        final_hidden_states |->
            experts_call(expert_mask, in.hidden_states, routing_weights, E, k, T),
        router_logits |-> in.router_logits]

(***************************************************************************)
(* Arrays, masks and errors                                                *)
(*                                                                         *)
(* A key/value tensor is kept as its shape and, per sequence slot, a label *)
(* of what was written there: keys carry the token and the rotary          *)
(* position, values the token; tok = 0 is an all-zero slot.  Batch rows    *)
(* are independent and alike, so masks are kept for one row.  A mask is    *)
(* its rank (2: (batch, k); 4: (batch, 1, q, k)), its q and k extents and  *)
(* its 0/1 entries.                                                        *)
(***************************************************************************)
Err(kind) == [status |-> kind]
NoCache == [status |-> "nocache"]
NoMask == [rank |-> 0]
NoPositions == [given |-> FALSE]
ZeroKey == [tok |-> 0, pos |-> 0]
ZeroValue == [tok |-> 0]

Max(a, b) == IF a >= b THEN a ELSE b
Min(a, b) == IF a <= b THEN a ELSE b
Clamp(x, lo, hi) == IF x < lo THEN lo ELSE IF x > hi THEN hi ELSE x
Broadcastable(m, n) == m = n \/ m = 1 \/ n = 1
BIdx(i, dim) == IF dim = 1 THEN 0 ELSE i

Mask(rank, qdim, kdim, val) ==
    [status |-> "ok", rank |-> rank, qdim |-> qdim, kdim |-> kdim, val |-> val]
OnesMask(rank, qdim, kdim) ==
    Mask(rank, qdim, kdim, [i \in 0..(qdim - 1) |-> [j \in 0..(kdim - 1) |-> 1]])
Arange(n) == [i \in 0..(n - 1) |-> i]

\* flax.linen.combine_masks: the masks must have the same rank (an assert),
\* then jnp.logical_and, which broadcasts
combine_masks_any_rank(a, b) ==
    IF ~(Broadcastable(a.qdim, b.qdim) /\ Broadcastable(a.kdim, b.kdim))
    THEN Err("BroadcastError")
    ELSE LET Q == Max(a.qdim, b.qdim)
             K == Max(a.kdim, b.kdim)
         IN Mask(Max(a.rank, b.rank), Q, K,
                 [i \in 0..(Q - 1) |-> [j \in 0..(K - 1) |->
                     IF a.val[BIdx(i, a.qdim)][BIdx(j, a.kdim)] = 1
                        /\ b.val[BIdx(i, b.qdim)][BIdx(j, b.kdim)] = 1
                     THEN 1 ELSE 0]])

combine_masks(a, b) ==
    IF a.rank # b.rank THEN Err("AssertionError") ELSE combine_masks_any_rank(a, b)

\* nn.make_causal_mask(jnp.ones((1, c_max_position_embeddings))): line 1114
make_causal_mask(i, j) == IF j <= i THEN 1 ELSE 0

\* jax.lax.dynamic_update_slice along the sequence axis: the update must fit
\* in the operand, and the start index is clamped so that it does
dynamic_update_slice(operand, n, update, m, start) ==
    LET at == Clamp(start, 0, n - m)
    IN [j \in 0..(n - 1) |-> IF at <= j /\ j < at + m THEN update[j - at] ELSE operand[j]]

(***************************************************************************)
(* FlaxMixtralAttention                                                    *)
(***************************************************************************)
\* setup, lines 351-353
head_dim(cfg) == cfg.hidden_size \div cfg.num_attention_heads
num_key_value_groups(cfg) == cfg.num_attention_heads \div cfg.num_key_value_heads

\* repeat_kv_bnsh (flax_modelling_utils): the key/value heads repeated n_rep times
repeat_kv_bnsh(heads, n_rep) == heads * n_rep

\* t_rotary, lines 398-407: the (batch, seq, heads, head_dim) tensors that
\* leave it; the rotary embedding stamps query and key with position_ids
t_rotary_without_repeat(cfg, b, q, toks, position_ids) ==
    [query_shape |-> <<b, q, cfg.num_attention_heads, head_dim(cfg)>>,
     key_shape |-> <<b, q, cfg.num_key_value_heads, head_dim(cfg)>>,
     query |-> [i \in 0..(q - 1) |-> [tok |-> toks[i], pos |-> position_ids[i]]],
     key |-> [i \in 0..(q - 1) |-> [tok |-> toks[i], pos |-> position_ids[i]]],
     value |-> [i \in 0..(q - 1) |-> [tok |-> toks[i]]]]

t_rotary(cfg, b, q, toks, position_ids) ==
    [query_shape |-> <<b, q, cfg.num_attention_heads, head_dim(cfg)>>,
     key_shape |-> <<b, q, repeat_kv_bnsh(cfg.num_key_value_heads,
                                           num_key_value_groups(cfg)), head_dim(cfg)>>,
     query |-> [i \in 0..(q - 1) |-> [tok |-> toks[i], pos |-> position_ids[i]]],
     key |-> [i \in 0..(q - 1) |-> [tok |-> toks[i], pos |-> position_ids[i]]],
     value |-> [i \in 0..(q - 1) |-> [tok |-> toks[i]]]]

\* lines 375-377 when the variables do not exist yet: zeros of key.shape, index 0
new_cache_variables(key_shape) ==
    [status |-> "cache",
     shape |-> key_shape,
     key |-> [j \in 0..(key_shape[2] - 1) |-> ZeroKey],
     value |-> [j \in 0..(key_shape[2] - 1) |-> ZeroValue],
     index |-> 0]

\* lines 379-386: the write at the cursor and the cursor's advance
cache_update(cache, tr, q) ==
    [cache EXCEPT
        !.key = dynamic_update_slice(cache.key, cache.shape[2], tr.key, q, cache.index),
        !.value = dynamic_update_slice(cache.value, cache.shape[2], tr.value, q, cache.index),
        !.index = cache.index + q]

\* lines 387-391: the pad mask over the slots below the new cursor, combined
\* with the attention mask that came in
cache_masked(updated, q, attention_mask) ==
    [status |-> "ok", cache |-> updated,
     key |-> updated.key, value |-> updated.value, k_l |-> updated.shape[2],
     attention_mask |->
        combine_masks(Mask(4, q, updated.shape[2],
                           [i \in 0..(q - 1) |-> [j \in 0..(updated.shape[2] - 1) |->
                               IF j < updated.index THEN 1 ELSE 0]]),
                      attention_mask)]

\* a failed step's error in place of the record that holds it
Lift(r) == IF r.attention_mask.status # "ok" THEN r.attention_mask ELSE r

\* concatenate_to_cache_, lines 373-392
concatenate_to_cache_(cache, tr, q, attention_mask) ==
    IF cache = NoCache
    THEN [status |-> "ok", cache |-> new_cache_variables(tr.key_shape),
          key |-> tr.key, value |-> tr.value, k_l |-> q,
          attention_mask |-> attention_mask]
    ELSE IF q > cache.shape[2] \/ tr.key_shape[1] # cache.shape[1]
              \/ tr.key_shape[3] # cache.shape[3] \/ tr.key_shape[4] # cache.shape[4]
    THEN Err("TypeError")
    ELSE Lift(cache_masked(cache_update(cache, tr, q), q, attention_mask))

\* lines 458-465: the causal mask cut to the active query/key range
causal_slice(cmax, cache, q_l, k_l) ==
    IF cache # NoCache
    THEN IF q_l > cmax \/ cache.shape[2] > cmax THEN Err("TypeError")
         ELSE Mask(4, q_l, cache.shape[2],
                   [i \in 0..(q_l - 1) |-> [j \in 0..(cache.shape[2] - 1) |->
                       make_causal_mask(Clamp(cache.index, 0, cmax - q_l) + i, j)]])
    ELSE Mask(4, Min(q_l, cmax), Min(k_l, cmax),
              [i \in 0..(Min(q_l, cmax) - 1) |-> [j \in 0..(Min(k_l, cmax) - 1) |->
                  make_causal_mask(i, j)]])

\* lines 470-471: a rank-2 mask is expanded and broadcast to the causal mask's shape
broadcast_to_causal(attention_mask, causal) ==
    IF attention_mask.rank # 2 THEN attention_mask
    ELSE IF ~(attention_mask.kdim = causal.kdim \/ attention_mask.kdim = 1)
    THEN Err("BroadcastError")
    ELSE Mask(4, causal.qdim, causal.kdim,
              [i \in 0..(causal.qdim - 1) |-> [j \in 0..(causal.kdim - 1) |->
                  attention_mask.val[0][BIdx(j, attention_mask.kdim)]]])

\* lines 469-473: the mask that goes into the attention bias
effective_mask(attention_mask, causal) ==
    IF causal.status # "ok" THEN causal
    ELSE IF broadcast_to_causal(attention_mask, causal).status # "ok"
    THEN Err("BroadcastError")
    ELSE combine_masks(broadcast_to_causal(attention_mask, causal), causal)

\* lines 517-556 (dense path): per query the key slots the bias leaves open,
\* and the keys and values read there
attend(q, tr, cc, eff) ==
    IF eff.status # "ok" THEN eff
    ELSE IF ~(Broadcastable(eff.qdim, q) /\ eff.qdim <= q
              /\ Broadcastable(eff.kdim, cc.k_l) /\ eff.kdim <= cc.k_l)
    THEN Err("BroadcastError")
    ELSE [status |-> "ok",
          cache |-> cc.cache,
          query |-> tr.query,
          allowed |-> [i \in 0..(q - 1) |->
                          {j \in 0..(cc.k_l - 1) :
                              eff.val[BIdx(i, eff.qdim)][BIdx(j, eff.kdim)] = 1}],
          context |-> [i \in 0..(q - 1) |->
                          {[key |-> cc.key[j], value |-> cc.value[j]] :
                              j \in {n \in 0..(cc.k_l - 1) :
                                  eff.val[BIdx(i, eff.qdim)][BIdx(n, eff.kdim)] = 1}}]]

\* lines 457-473 on what concatenate_to_cache_ left
attention_masked(cmax, q, tr, cc) ==
    IF cc.status # "ok" THEN cc
    ELSE attend(q, tr, cc,
                effective_mask(cc.attention_mask, causal_slice(cmax, cc.cache, q, cc.k_l)))

\* lines 454-455
attention_cached(cmax, q, tr, cache, init_cache, attention_mask) ==
    attention_masked(cmax, q, tr,
        IF cache # NoCache \/ init_cache
        THEN concatenate_to_cache_(cache, tr, q, attention_mask)
        ELSE [status |-> "ok", cache |-> NoCache, key |-> tr.key,
              value |-> tr.value, k_l |-> q, attention_mask |-> attention_mask])

\* __call__, lines 438-559.  cache is this layer's 'cache' collection (NoCache
\* when the module holds none).  Returns the cache variables after the call
\* and per query the key slots it may attend to with the keys/values there.
Attention(cfg, cache, init_cache, b, q, toks, attention_mask, position_ids) ==
    attention_cached(cfg.c_max_position_embeddings, q,
                     t_rotary(cfg, b, q, toks, position_ids),
                     cache, init_cache, attention_mask)

(***************************************************************************)
(* FlaxMixtralAttention.__call__ with the choice between the chunked       *)
(* (flash) and the dense path and the additive bias that either path is    *)
(* given.  What smart_flash_attention computes from the bias is not        *)
(* modelled.                                                               *)
(***************************************************************************)
\* lines 375-377: the variables concatenate_to_cache_ keeps in 'cache'
CacheVariableNames == {"key", "value", "index"}

\* flax Module.has_variable on this module's 'cache' collection
has_variable(cache, name) == cache # NoCache /\ name \in CacheVariableNames

\* line 475
attention_path(use_flash_attention, cache, init_cache) ==
    IF use_flash_attention /\ ~(has_variable(cache, "cached_key") \/ init_cache)
    THEN "flash" ELSE "dense"

\* jnp.full(shape, 0.0).astype(dtype) and jnp.full(shape, jnp.finfo(dtype).min).astype(dtype)
zero_of(dtype) == [dtype |-> dtype, value |-> "0"]
finfo_min(dtype) == [dtype |-> dtype, value |-> "min"]

\* the selection with attention_mask >= 0 as its condition
attention_bias_where_nonnegative(mask, dtype) ==
    [i \in 0..(mask.qdim - 1) |-> [j \in 0..(mask.kdim - 1) |->
        IF mask.val[i][j] >= 0 THEN zero_of(dtype) ELSE finfo_min(dtype)]]

\* lines 482-486 and 517-521: lax.select(attention_mask > 0, zeros, minima)
attention_bias(mask, dtype) ==
    [i \in 0..(mask.qdim - 1) |-> [j \in 0..(mask.kdim - 1) |->
        IF mask.val[i][j] > 0 THEN zero_of(dtype) ELSE finfo_min(dtype)]]

\* lines 477-481: on the flash path the mask is repeated over the heads
bias_heads(path, num_attention_heads) == IF path = "flash" THEN num_attention_heads ELSE 1

\* lines 454-455: keys, values and mask after the cache step, if there is one
attention_kv(cache, init_cache, tr, q, attention_mask) ==
    IF cache # NoCache \/ init_cache
    THEN concatenate_to_cache_(cache, tr, q, attention_mask)
    ELSE [status |-> "ok", cache |-> NoCache, key |-> tr.key,
          value |-> tr.value, k_l |-> q, attention_mask |-> attention_mask]

\* lines 457-556 with the path and the bias kept; out is what Attention returns
attention_traced(cfg, dtype, q, init_cache, cc, out) ==
    IF out.status # "ok" THEN out
    ELSE [status |-> "ok",
          cache |-> out.cache,
          allowed |-> out.allowed,
          path |-> attention_path(cfg.use_flash_attention, cc.cache, init_cache),
          heads |-> bias_heads(attention_path(cfg.use_flash_attention, cc.cache, init_cache),
                               cfg.num_attention_heads),
          attention_mask |-> broadcast_to_causal(cc.attention_mask,
                                 causal_slice(cfg.c_max_position_embeddings, cc.cache, q, cc.k_l)),
          causal_mask |-> causal_slice(cfg.c_max_position_embeddings, cc.cache, q, cc.k_l),
          attention_bias |->
              attention_bias(effective_mask(cc.attention_mask,
                                 causal_slice(cfg.c_max_position_embeddings, cc.cache, q, cc.k_l)),
                             dtype)]

AttentionTraced(cfg, dtype, cache, init_cache, q, toks, attention_mask, position_ids) ==
    attention_traced(cfg, dtype, q, init_cache,
                     attention_kv(cache, init_cache, t_rotary(cfg, 1, q, toks, position_ids),
                                  q, attention_mask),
                     Attention(cfg, cache, init_cache, 1, q, toks, attention_mask, position_ids))

(***************************************************************************)
(* The decoder stack, InitCache and the Forward wrapper                    *)
(***************************************************************************)
\* FlaxMixtralForCausalLMModule / FlaxMixtralModule /
\* FlaxMixtralDecoderLayerCollection: every layer's attention runs on that
\* layer's own cache collection; pkv is NoCache or [layers |-> ...].  A
\* position's logits are a function of its query and of what each layer let
\* it attend to.
stack_outputs(Layers, q, r) ==
    IF \E l \in Layers : r[l].status # "ok"
    THEN Err(r[CHOOSE l \in Layers : r[l].status # "ok"
                   /\ \A m \in Layers : r[m].status # "ok" => l <= m].status)
    ELSE [status |-> "ok",
          logits |-> [i \in 0..(q - 1) |->
                         [query |-> r[0].query[i],
                          context |-> [l \in Layers |-> r[l].context[i]]]],
          allowed |-> [l \in Layers |-> r[l].allowed],
          cache |-> [status |-> "cache", layers |-> [l \in Layers |-> r[l].cache]]]

ModuleApply(cfg, init_cache, b, q, toks, attention_mask, position_ids, pkv) ==
    stack_outputs(0..(cfg.num_hidden_layers - 1), q,
        [l \in 0..(cfg.num_hidden_layers - 1) |->
            Attention(cfg, IF pkv = NoCache THEN NoCache ELSE pkv.layers[l],
                      init_cache, b, q, toks, attention_mask, position_ids)])

\* MixtralPreTrainedModel.init_cache, lines 973-982
cache_of(out) == IF out.status # "ok" THEN out ELSE out.cache

init_cache(cfg, batch_size, max_length) ==
    cache_of(ModuleApply(cfg, TRUE, batch_size, max_length,
                         [i \in 0..(max_length - 1) |-> 1],
                         OnesMask(2, 1, max_length), Arange(max_length), NoCache))

\* line 1036 with the positions left at zero
zero_position_ids(q) == [i \in 0..(q - 1) |-> 0]
\* line 1036: jnp.broadcast_to(jnp.arange(sequence_length)[None, :], ...)
default_position_ids(q) == [i \in 0..(q - 1) |-> i]
\* line 1039: jnp.ones((batch_size, sequence_length))
default_attention_mask(q) == OnesMask(2, 1, q)

\* MixtralPreTrainedModel.__call__, lines 1030-1079.
\* call = [b, q, toks, attention_mask, position_ids, return_dict,
\* add_params_field]; pkv = past_key_values
\* lines 1071-1079: past_key_values is returned only when it was passed.  With
\* return_dict the module's output is a flax.struct dataclass (lines 274-280),
\* and line 1073 assigns to it by key, which such an object does not support.
forward_outputs(out, position_ids, pkv, return_dict) ==
    IF out.status # "ok" THEN out
    ELSE IF pkv # NoCache /\ return_dict THEN Err("TypeError")
    ELSE [status |-> "ok",
          logits |-> out.logits,
          allowed |-> out.allowed,
          position_ids |-> position_ids,
          past_key_values |-> IF pkv # NoCache THEN out.cache ELSE NoCache]

forward_apply(cfg, call, attention_mask, position_ids, pkv) ==
    forward_outputs(ModuleApply(cfg, FALSE, call.b, call.q, call.toks,
                                attention_mask, position_ids, pkv),
                    position_ids, pkv, call.return_dict)

\* lines 1045-1050: inputs is the caller's container itself unless
\* add_params_field, and past_key_values is stored in it under "cache"
inputs_container(container, call, pkv) ==
    IF ~call.position_ids.given /\ pkv # NoCache THEN container
    ELSE IF pkv # NoCache /\ ~call.add_params_field THEN container \cup {"cache"}
    ELSE container

\* the wrapper with the position_ids check of lines 1032-1034 left out
ForwardWithoutPositionCheck(cfg, call, pkv) ==
    forward_apply(cfg, call,
                  IF call.attention_mask.rank = 0
                  THEN default_attention_mask(call.q) ELSE call.attention_mask,
                  IF call.position_ids.given THEN call.position_ids.ids
                  ELSE default_position_ids(call.q),
                  pkv)

Forward(cfg, call, pkv) ==
    IF ~call.position_ids.given /\ pkv # NoCache
    THEN Err("ValueError")
    ELSE forward_apply(cfg, call,
                       IF call.attention_mask.rank = 0
                       THEN default_attention_mask(call.q) ELSE call.attention_mask,
                       IF call.position_ids.given THEN call.position_ids.ids
                       ELSE default_position_ids(call.q),
                       pkv)

(***************************************************************************)
(* The generation helpers, lines 1266-1296.  attention_mask is NoMask or a *)
(* (batch, seq_length) mask; model_kwargs is the dict the generation loop  *)
(* passes to Forward and hands back to update_inputs_for_generation.       *)
(***************************************************************************)
\* line 1284: attention_mask.cumsum(axis=-1) - 1
RECURSIVE cumsum(_, _)
cumsum(row, i) == IF i < 0 THEN 0 ELSE cumsum(row, i - 1) + row[i]

\* lines 1281-1287.  lax.dynamic_update_slice rejects an update longer than
\* its operand
prepared_masks(seq_length, max_length, attention_mask) ==
    IF attention_mask.rank = 0
    THEN [status |-> "ok", attention_mask |-> OnesMask(2, 1, max_length), position_ids |-> Arange(seq_length)]
    ELSE IF seq_length > max_length THEN Err("TypeError")
    ELSE [status |-> "ok",
          attention_mask |-> Mask(2, 1, max_length, [b \in {0} |-> dynamic_update_slice([j \in 0..(max_length - 1) |-> 1], max_length, attention_mask.val[0], seq_length, 0)]),
          position_ids |-> [i \in 0..(seq_length - 1) |-> cumsum(attention_mask.val[0], i) - 1]]

\* lines 1266-1292
prepare_inputs_for_generation(cfg, batch_size, seq_length, max_length, attention_mask) ==
    IF init_cache(cfg, batch_size, max_length).status # "cache" THEN init_cache(cfg, batch_size, max_length)
    ELSE IF prepared_masks(seq_length, max_length, attention_mask).status # "ok" THEN prepared_masks(seq_length, max_length, attention_mask)
    ELSE [status |-> "ok",
          past_key_values |-> init_cache(cfg, batch_size, max_length),
          attention_mask |-> prepared_masks(seq_length, max_length, attention_mask).attention_mask,
          position_ids |-> prepared_masks(seq_length, max_length, attention_mask).position_ids]

\* line 1296: model_kwargs["position_ids"][:, -1:] + 1
next_position_ids(position_ids) == [i \in {0} |-> position_ids[Cardinality(DOMAIN position_ids) - 1] + 1]

\* lines 1294-1297
update_inputs_for_generation(model_outputs, model_kwargs) ==
    [model_kwargs EXCEPT !.past_key_values = model_outputs.past_key_values,
                         !.position_ids = next_position_ids(model_kwargs.position_ids)]

\* the call the generation loop makes: model(input_ids, params, **model_kwargs)
\* with q input ids, return_dict and add_params_field at their defaults
generation_call(batch_size, q, first_token, model_kwargs) ==
    [b |-> batch_size, q |-> q, toks |-> [i \in 0..(q - 1) |-> first_token + i],
     attention_mask |-> model_kwargs.attention_mask,
     position_ids |-> [given |-> TRUE, ids |-> model_kwargs.position_ids],
     return_dict |-> TRUE, add_params_field |-> FALSE]

(***************************************************************************)
(* The wrapper with the values of the container kept.  The container is a  *)
(* dict; inputs_container above keeps its keys only.                       *)
(***************************************************************************)
\* line 1045: params or self.params, the usual {"params": ...} tree
ModelParams == [params |-> "weights"]

\* line 1050 as inputs.setdefault("cache", past_key_values): an entry that is
\* already there is kept
inputs_keeping_cache(container, call, pkv) ==
    IF ~call.position_ids.given /\ pkv # NoCache THEN container
    ELSE IF pkv # NoCache /\ ~call.add_params_field
         THEN [key \in DOMAIN container \cup {"cache"} |->
                  IF key \in DOMAIN container THEN container[key] ELSE pkv]
    ELSE container

\* lines 1045-1050: inputs is the caller's container itself unless
\* add_params_field, and inputs["cache"] = past_key_values
inputs(container, call, pkv) ==
    IF ~call.position_ids.given /\ pkv # NoCache THEN container
    ELSE IF pkv # NoCache /\ ~call.add_params_field
         THEN [key \in DOMAIN container \cup {"cache"} |->
                  IF key = "cache" THEN pkv ELSE container[key]]
    ELSE container

\* lines 1030-1079: module.apply runs on inputs, so the cache the layers see
\* is the "cache" entry of inputs; with add_params_field inputs is a new dict.
\* Without past_key_values the call is made with mutable=False, and a
\* "cache" entry left in the container makes the attention write to an
\* immutable collection.
ForwardOn(container, cfg, call, pkv) ==
    IF pkv = NoCache
    THEN IF ~call.add_params_field /\ "cache" \in DOMAIN container
         THEN Err("ModifyScopeVariableError")
         ELSE Forward(cfg, call, NoCache)
    ELSE IF ~call.position_ids.given \/ call.add_params_field
         THEN Forward(cfg, call, pkv)
    ELSE Forward(cfg, call, inputs(container, call, pkv)["cache"])

(***************************************************************************)
(* The modules called directly (module.apply): the input check, the        *)
(* diagnostic traces and the auxiliary loss.  Python's None is None below, *)
(* a present value v is Some(v); a tuple is a sequence, indexed as Python  *)
(* indexes it.  A flag argument is "None", "True" or "False".  The hidden  *)
(* state that has passed d layers is Hidden(d, FALSE), after the final     *)
(* norm Hidden(d, TRUE); layer l's attention weights and router logits     *)
(* carry the layer's index.                                                *)
(***************************************************************************)
None == [some |-> FALSE]
Some(v) == [some |-> TRUE, val |-> v]
Flags == {"None", "True", "False"}
PyIndex(t, i) == IF i >= 0 THEN t[i + 1] ELSE t[Len(t) + i + 1]
Hidden(d, normed) == [depth |-> d, normed |-> normed]

\* lines 1136-1142: flag if flag is not None else the config's default
flag_or_default(flag, default) == IF flag = "None" THEN default ELSE flag = "True"

\* FlaxMixtralModule.__call__, lines 1129-1135
input_check(has_input_ids, has_inputs_embeds) ==
    IF has_input_ids /\ has_inputs_embeds THEN Err("ValueError")
    ELSE IF ~has_inputs_embeds /\ has_input_ids THEN [status |-> "ok"]
    ELSE Err("ValueError")

\* FlaxMixtralDecoderLayer.__call__, lines 787-792: the outputs tuple
decoder_layer_outputs(hidden_states, self_attn_weights, router_logits, output_attentions, output_router_logits) ==
    <<hidden_states>>
        \o (IF output_attentions THEN <<self_attn_weights>> ELSE <<>>)
        \o (IF output_router_logits THEN <<router_logits>> ELSE <<>>)

\* lines 846-848: () if flag else None
empty_if(flag) == IF flag THEN Some(<<>>) ELSE None
\* all_x += (v,)
appended(acc, v) == Some(acc.val \o <<v>>)

\* FlaxMixtralDecoderLayerCollection.__call__, lines 850-871: the loop over
\* the blocks from block l on; acc = [hidden_states, all_hidden_states,
\* all_self_attns, all_router_logits]
RECURSIVE collection_loop(_, _, _, _, _, _, _)
collection_loop(l, N, acc, attn, output_hidden_states, output_attentions, output_router_logits) ==
    IF l >= N THEN acc
    ELSE LET layer_outputs ==
                 decoder_layer_outputs(Hidden(acc.hidden_states.depth + 1, FALSE),
                                       [layer |-> l, weights |-> attn[l]],
                                       [layer |-> l, router |-> "logits"],
                                       output_attentions, output_router_logits)
         IN collection_loop(l + 1, N,
                [hidden_states |-> PyIndex(layer_outputs, 0),
                 all_hidden_states |->
                     IF output_hidden_states
                     THEN appended(acc.all_hidden_states, acc.hidden_states)
                     ELSE acc.all_hidden_states,
                 all_self_attns |->
                     IF output_attentions
                     THEN appended(acc.all_self_attns, PyIndex(layer_outputs, 1))
                     ELSE acc.all_self_attns,
                 all_router_logits |->
                     IF output_router_logits
                     THEN appended(acc.all_router_logits, PyIndex(layer_outputs, -1))
                     ELSE acc.all_router_logits],
                attn, output_hidden_states, output_attentions, output_router_logits)

\* lines 873-880: the outputs tuple of the collection
collection_outputs(acc, output_hidden_states, output_attentions, output_router_logits) ==
    <<acc.hidden_states>>
        \o (IF output_attentions THEN <<acc.all_self_attns>> ELSE <<>>)
        \o (IF output_hidden_states THEN <<acc.all_hidden_states>> ELSE <<>>)
        \o (IF output_router_logits THEN <<acc.all_router_logits>> ELSE <<>>)

\* FlaxMixtralDecoderLayerCollection.__call__, lines 846-880
LayerCollection(N, attn, output_hidden_states, output_attentions, output_router_logits) ==
    collection_outputs(
        collection_loop(0, N,
            [hidden_states |-> Hidden(0, FALSE),
             all_hidden_states |-> empty_if(output_hidden_states),
             all_self_attns |-> empty_if(output_attentions),
             all_router_logits |-> empty_if(output_router_logits)],
            attn, output_hidden_states, output_attentions, output_router_logits),
        output_hidden_states, output_attentions, output_router_logits)

\* lines 1155-1180 with the hidden-state trace always read at index 1
module_outputs_fixed_index(co, output_hidden_states, output_attentions, output_router_logits) ==
    [status |-> "ok",
     last_hidden_state |-> Hidden(PyIndex(co, 0).depth, TRUE),
     hidden_states |->
         IF output_hidden_states
         THEN appended(PyIndex(co, 1), Hidden(PyIndex(co, 0).depth, TRUE))
         ELSE None,
     attentions |-> IF output_attentions THEN PyIndex(co, 1) ELSE None,
     router_logits |-> IF output_router_logits THEN PyIndex(co, -1) ELSE None]

\* FlaxMixtralModule.__call__, lines 1155-1180, on the collection's outputs
module_outputs(co, output_hidden_states, output_attentions, output_router_logits) ==
    [status |-> "ok",
     last_hidden_state |-> Hidden(PyIndex(co, 0).depth, TRUE),
     hidden_states |->
         IF output_hidden_states
         THEN appended(PyIndex(co, IF output_attentions THEN 2 ELSE 1),
                       Hidden(PyIndex(co, 0).depth, TRUE))
         ELSE None,
     attentions |-> IF output_attentions THEN PyIndex(co, 1) ELSE None,
     router_logits |-> IF output_router_logits THEN PyIndex(co, -1) ELSE None]

\* lines 1136-1180 once the attention of every layer is known
module_traces(cfg, attn, output_hidden_states, output_attentions, output_router_logits) ==
    module_outputs(
        LayerCollection(cfg.num_hidden_layers, attn,
                        output_hidden_states, output_attentions, output_router_logits),
        output_hidden_states, output_attentions, output_router_logits)

\* FlaxMixtralModule.__call__, lines 1116-1180.  call = [has_input_ids,
\* has_inputs_embeds, b, q, output_hidden_states, output_attentions,
\* output_router_logits]; the attention mask and the positions are the
\* all-ones mask and 0..q-1.
module_after_check(cfg, call, checked, stack) ==
    IF checked.status # "ok" THEN checked
    ELSE IF stack.status # "ok" THEN stack
    ELSE module_traces(cfg, stack.allowed,
             flag_or_default(call.output_hidden_states, cfg.output_hidden_states),
             flag_or_default(call.output_attentions, cfg.output_attentions),
             flag_or_default(call.output_router_logits, cfg.output_router_logits))

MixtralModule(cfg, call) ==
    module_after_check(cfg, call,
        input_check(call.has_input_ids, call.has_inputs_embeds),
        ModuleApply(cfg, FALSE, call.b, call.q, [i \in 0..(call.q - 1) |-> i + 1],
                    OnesMask(2, 1, call.q), Arange(call.q), NoCache))

\* the attributes a FlaxMixtralForCausalLMModule has: its dataclass fields
\* (lines 1188-1191) and what setup assigns (lines 1194, 1200)
CausalLMModuleAttributes == {"config", "dtype", "param_dtype", "precision", "model", "lm_head"}
getattr_status(attributes, name) ==
    IF name \in attributes THEN [status |-> "ok"] ELSE Err("AttributeError")

\* lines 1235-1240: aux_loss.  The arguments of jax_load_balancing_loss_func
\* are evaluated first, self.num_experts among them.
aux_loss_of(outputs, output_router_logits) ==
    IF output_router_logits = "True" /\ outputs.router_logits # None
    THEN getattr_status(CausalLMModuleAttributes, "num_experts")
    ELSE [status |-> "ok", aux_loss |-> None]

\* lines 1254-1260
causal_lm_outputs(outputs, aux) ==
    IF outputs.status # "ok" THEN outputs
    ELSE IF aux.status # "ok" THEN aux
    ELSE [status |-> "ok",
          aux_loss |-> aux.aux_loss,
          logits |-> [lm_head |-> outputs.last_hidden_state],
          hidden_states |-> outputs.hidden_states,
          attentions |-> outputs.attentions,
          router_logits |-> outputs.router_logits]

causal_lm_on(outputs, output_router_logits) ==
    causal_lm_outputs(outputs,
        IF outputs.status # "ok" THEN outputs
        ELSE aux_loss_of(outputs, output_router_logits))

\* FlaxMixtralForCausalLMModule.__call__, lines 1210-1260 (return_dict true)
CausalLMModule(cfg, call) ==
    causal_lm_on(MixtralModule(cfg, call), call.output_router_logits)

(***************************************************************************)
(* FlaxMixtralDecoderLayer.__call__, statement by statement.  Tensors are  *)
(* terms: what a sub-module returns is named by the sub-module and the     *)
(* term it was given.                                                      *)
(***************************************************************************)
Input(layer, batch) == [op |-> "input", layer |-> layer, batch |-> batch]
Applied(module, x) == [op |-> module, of |-> x]
Plus(a, b) == [op |-> "add", left |-> a, right |-> b]

\* line 768
input_layernorm(hidden_states) == Applied("input_layernorm", hidden_states)
\* lines 769-778: (hidden_states, self_attn_weights)
self_attn(hidden_states) ==
    <<Applied("self_attn", hidden_states), Applied("self_attn_weights", hidden_states)>>
\* line 780 without the residual
attn_residual_dropped(residual, hidden_states) == hidden_states
\* line 780: hidden_states = residual + hidden_states
attn_residual(residual, hidden_states) == Plus(residual, hidden_states)
\* line 783
post_attention_layernorm(hidden_states) == Applied("post_attention_layernorm", hidden_states)
\* line 784: (hidden_states, router_logits)
block_sparse_moe(hidden_states) ==
    <<Applied("block_sparse_moe", hidden_states), Applied("router_logits", hidden_states)>>
\* line 785: hidden_states = residual + hidden_states
moe_residual(residual, hidden_states) == Plus(residual, hidden_states)

(***************************************************************************)
(* jax_load_balancing_loss_func.  gate_logits is None or a tuple with one  *)
(* (tokens x experts) matrix of integer logits per layer.                  *)
(***************************************************************************)
\* line 285: jnp.concatenate([gate for gate in gate_logits], axis=0)
RECURSIVE concatenate_gates(_)
concatenate_gates(gates) ==
    IF Len(gates) = 1 THEN gates[1]
    ELSE LET head == concatenate_gates(SubSeq(gates, 1, Len(gates) - 1))
             last == gates[Len(gates)]
             n == Cardinality(DOMAIN head)
             m == Cardinality(DOMAIN last)
         IN [t \in 0..(n + m - 1) |-> IF t < n THEN head[t] ELSE last[t - n]]

\* an array that an operation returns is a value: f itself, with its entries
\* computed once and not again at every use
Array(f) == f @@ <<>>

\* line 286: jax.lax.top_k(gate_logits, top_k) on the raw logits of a row
loss_selected_experts(gate, k) ==
    Array([t \in DOMAIN gate |->
              Array(top_k([e \in DOMAIN gate[t] |-> <<gate[t][e], 1>>], k).indices)])

\* the softmax taken over all the logits of a row, the selected entries kept
loss_routing_weights_softmax_first(gate, selected, k) ==
    Array([t \in DOMAIN gate |->
              Array([s \in 0..(k - 1) |-> softmax(gate[t])[selected[t][s]]])])

\* line 287: softmax over the k selected logits of a row
loss_routing_weights(gate, selected, k) ==
    Array([t \in DOMAIN gate |->
              Array(softmax([s \in 0..(k - 1) |-> gate[t][selected[t][s]]]))])

\* lines 290-292: selected_experts[:, :, None], one_hot, max over axis -2:
\* expert_mask[t][s][e] = 1 iff slot s of row t selected expert e
loss_expert_mask(selected, num_experts, k) ==
    [t \in DOMAIN selected |-> [s \in 0..(k - 1) |-> [e \in 0..(num_experts - 1) |->
        IF selected[t][s] = e THEN 1 ELSE 0]]]

\* line 293: jnp.mean(expert_mask, axis=-2), the mean over the k slots
tokens_per_group_and_expert(expert_mask, num_experts, k) ==
    [t \in DOMAIN expert_mask |-> [e \in 0..(num_experts - 1) |->
        Rat(SumOver([s \in 0..(k - 1) |-> expert_mask[t][s][e]], 0..(k - 1)), k)]]

\* line 294: jnp.mean(routing_weights, axis=-1), the mean over the k slots
router_prob_per_group_and_expert(routing_weights, k) ==
    [t \in DOMAIN routing_weights |-> RatDiv(RatSumFn(routing_weights[t], k), <<k, 1>>)]

\* line 295: tokens_per_group_and_expert * expand_dims(router_prob, -1)
loss_product(tokens_per, router_prob, num_experts) ==
    [t \in DOMAIN tokens_per |-> [e \in 0..(num_experts - 1) |->
        RatMul(tokens_per[t][e], router_prob[t])]]

\* the mean taken over the column of expert 0 only
loss_mean_first_expert(product, num_experts) ==
    LET n == Cardinality(DOMAIN product)
    IN RatMul(RatDiv(RatSumFn([t \in 0..(n - 1) |-> product[t][0]], n), <<n, 1>>),
              <<num_experts * num_experts, 1>>)

\* lines 295-296: jnp.mean(...) over every entry, times num_experts ** 2
loss_mean(product, num_experts) ==
    LET n == Cardinality(DOMAIN product)
        rows == [t \in 0..(n - 1) |-> RatSumFn(product[t], num_experts)]
    IN RatMul(RatDiv(RatSumFn(rows, n), <<n * num_experts, 1>>),
              <<num_experts * num_experts, 1>>)

loss_of_gate(gate, selected, num_experts, k) ==
    loss_mean(
        loss_product(
            tokens_per_group_and_expert(loss_expert_mask(selected, num_experts, k),
                                        num_experts, k),
            router_prob_per_group_and_expert(loss_routing_weights(gate, selected, k), k),
            num_experts),
        num_experts)

\* lines 281-296
jax_load_balancing_loss_func(gate_logits, num_experts, k) ==
    IF ~gate_logits.some THEN RatZero
    ELSE loss_of_gate(concatenate_gates(gate_logits.val),
                      loss_selected_experts(concatenate_gates(gate_logits.val), k),
                      num_experts, k)

(***************************************************************************)
(* Construction.  MixtralPreTrainedModel.__init__ builds the module and    *)
(* hands it to FlaxPreTrainedModel.__init__, which traces init_weights     *)
(* (jax.eval_shape) on an input of input_shape = (1, 1): one forward pass  *)
(* over shapes.  Neither MixtralConfig.__init__ nor any setup validates    *)
(* the hyperparameters; a config is rejected only by an operation of that  *)
(* pass whose shapes do not fit.                                           *)
(***************************************************************************)
\* lines 1089-1094, 1133: nn.Embed(vocab_size, hidden_size) and its lookup;
\* a table without rows cannot be initialized or indexed
embed_tokens_traced(cfg) ==
    IF cfg.vocab_size <= 0 THEN Err("EmbeddingError") ELSE [status |-> "ok"]

\* lines 351, 558 with the reshape taken to fit always
attention_reshape_unchecked(cfg) == [status |-> "ok"]

\* lines 351, 558: attn_output has num_heads * head_dim features, with
\* head_dim = hidden_size // num_heads, and is reshaped to hidden_size
attention_reshape_traced(cfg) ==
    IF cfg.num_attention_heads * (cfg.hidden_size \div cfg.num_attention_heads)
           # cfg.hidden_size
    THEN Err("TypeError") ELSE [status |-> "ok"]

\* line 689: jax.lax.top_k(routing_weights, k) needs k <= num_local_experts
router_top_k_traced(cfg) ==
    IF cfg.num_experts_per_tok > cfg.num_local_experts
    THEN Err("ValueError") ELSE [status |-> "ok"]

\* init_weights, lines 915-972: module.init runs the embedding, then in every
\* layer the attention and the routing block
init_weights_traced(cfg) ==
    IF embed_tokens_traced(cfg).status # "ok" THEN embed_tokens_traced(cfg)
    ELSE IF attention_reshape_traced(cfg).status # "ok" THEN attention_reshape_traced(cfg)
    ELSE router_top_k_traced(cfg)

\* MixtralPreTrainedModel.__init__, lines 890-913
Construct(cfg) ==
    IF init_weights_traced(cfg).status # "ok" THEN init_weights_traced(cfg)
    ELSE [status |-> "ok", model |-> [config |-> cfg]]

(***************************************************************************)
(* PyTorchServer (serve/torch_serve.py).  process, process_gradio_chat and *)
(* process_gradio_instruct contain a yield statement: they are generator functions,  *)
(* so calling one runs none of its body and returns a generator object;    *)
(* the body runs when the generator is iterated.  Strings are sequences of *)
(* chunks, the prompt formatting of a subclass is a term.                  *)
(***************************************************************************)
\* lines 83-86: the fields __init__ sets.  formats records whether the
\* subclass overrides format_chat and format_instruct; procs is the operating
\* system's view of the processes fire() has started, in start order
PyTorchServer(formats) == [status |-> "up", formats |-> formats, model |-> None, tokenizer |-> None, process_uvicorn |-> None, procs |-> <<>>, call |-> [op |-> "none"]]

\* lines 225-235: the base class raises NotImplementedError
format_instruct(formats, system, instruction) == IF formats THEN [status |-> "ok", value |-> [format |-> "instruct", system |-> system, instruction |-> instruction]] ELSE Err("NotImplementedError")

\* lines 238-252
format_chat(formats, history, prompt, system) == IF formats THEN [status |-> "ok", value |-> [format |-> "chat", history |-> history, prompt |-> prompt, system |-> system]] ELSE Err("NotImplementedError")

\* lines 254-263: the call of process: a generator object that has not started
process(string, stream) == [type |-> "generator", function |-> "process", string |-> string, stream |-> stream, started |-> FALSE]

\* lines 280-338: the body of process, run by iterating the generator.
\* generated is what model.generate produces for the prompt, as the chunks
\* the streamer hands over.  With stream the chunks are yielded one by one;
\* without, nothing is yielded and the decoded text is the generator's
\* return value
process_iterated(srv, gen, generated) == IF ~srv.model.some THEN [status |-> "AssertionError", message |-> "you should first load model", yields |-> <<>>] ELSE IF gen.stream THEN [status |-> "ok", yields |-> generated, value |-> None] ELSE [status |-> "ok", yields |-> <<>>, value |-> Some([type |-> "str", chunks |-> generated])]

\* lines 180-195 and 207-222: response = self.process(..., stream=False) and
\* return a dict with the one key response
response_dict(string) == [response |-> process(string, FALSE)]

\* lines 167-195
forward_instruct_fast_api(srv, data) == IF format_instruct(srv.formats, data.system, data.instruction).status # "ok" THEN format_instruct(srv.formats, data.system, data.instruction) ELSE [status |-> "ok", value |-> response_dict(format_instruct(srv.formats, data.system, data.instruction).value)]

\* lines 197-222
forward_chat_fast_api(srv, data) == IF format_chat(srv.formats, data.history, data.prompt, data.system).status # "ok" THEN format_chat(srv.formats, data.history, data.prompt, data.system) ELSE [status |-> "ok", value |-> response_dict(format_chat(srv.formats, data.history, data.prompt, data.system).value)]

\* responses after the first n chunks (responses += response)
RECURSIVE Responses(_, _)
Responses(chunks, n) == IF n = 0 THEN <<>> ELSE Append(Responses(chunks, n - 1), chunks[n])

\* lines 393-407, iterated to the end: history.append([prompt, '']), then one
\* yield ('', history) per chunk with the last entry holding the text so far
process_gradio_chat(srv, prompt, history, generated) == IF format_chat(srv.formats, history, prompt, None).status # "ok" THEN [status |-> format_chat(srv.formats, history, prompt, None).status, yields |-> <<>>, history |-> history] ELSE IF process_iterated(srv, process(format_chat(srv.formats, history, prompt, None).value, TRUE), generated).status # "ok" THEN [status |-> "AssertionError", yields |-> <<>>, history |-> Append(history, <<prompt, <<>>>>)] ELSE [status |-> "ok", yields |-> [n \in 1..Len(generated) |-> <<<<>>, Append(history, <<prompt, Responses(generated, n)>>)>>], history |-> Append(history, <<prompt, Responses(generated, Len(generated))>>)]

\* lines 434-446, iterated to the end: one yield ('', response) per chunk
process_gradio_instruct(srv, instruction, system, generated) == IF format_instruct(srv.formats, system, instruction).status # "ok" THEN [status |-> format_instruct(srv.formats, system, instruction).status, yields |-> <<>>] ELSE IF process_iterated(srv, process(format_instruct(srv.formats, system, instruction).value, TRUE), generated).status # "ok" THEN [status |-> "AssertionError", yields |-> <<>>] ELSE [status |-> "ok", yields |-> [n \in 1..Len(generated) |-> <<<<>>, generated[n]>>]]

\* lines 364-365
load(srv, repo_id) == [srv EXCEPT !.model = Some(repo_id), !.tokenizer = Some(repo_id)]

\* lines 573-574: a new process running uvicorn.run replaces whatever
\* process_uvicorn held
fire(srv) == [srv EXCEPT !.procs = Append(srv.procs, "running"), !.process_uvicorn = Some(Len(srv.procs) + 1)]

\* Process.join(): returns once the process has exited, blocks until then
join_returns(srv) == srv.procs[srv.process_uvicorn.val] = "exited"

(***************************************************************************)
(* The model and its callers as a state machine.  A generation session     *)
(* holds the cache InitCache gave it and replaces it by the one each       *)
(* successful Forward returns (update_inputs_for_generation, line 1294);   *)
(* the tokens a session feeds are numbered 1, 2, ... in the order fed.     *)
(* The parameter container is the usual {"params": ...} tree, so calls     *)
(* leave add_params_field at its default.                                  *)
(***************************************************************************)
HeadConfigs == { <<4, 2, 1>>, <<4, 2, 2>>, <<4, 4, 2>> }

MixtralConfig(h, c) ==
    [hidden_size |-> h[1], num_attention_heads |-> h[2], num_key_value_heads |-> h[3],
     num_hidden_layers |-> NumLayers, c_max_position_embeddings |-> c,
     output_attentions |-> FALSE, output_hidden_states |-> FALSE,
     output_router_logits |-> FALSE, use_flash_attention |-> FALSE]

\* the causal mask is as long as the longest cache, or one shorter, or one
\* longer
Configs ==
    { MixtralConfig(h, MaxLen) : h \in HeadConfigs }
    \cup { MixtralConfig(<<4, 4, 2>>, MaxLen - 1), MixtralConfig(<<4, 4, 2>>, MaxLen + 1) }

MaskVals(L) == { [j \in 0..(L - 1) |-> 1], [j \in 0..(L - 1) |-> IF j = 0 THEN 0 ELSE 1] }

\* the attention_mask arguments a caller passes when the key axis is k long:
\* none, (batch, k), or already expanded to (batch, 1, 1, k)
MaskArgs(k) ==
    {NoMask}
    \cup { Mask(2, 1, k, [i \in {0} |-> v]) : v \in MaskVals(k) }
    \cup { Mask(4, 1, k, [i \in {0} |-> v]) : v \in MaskVals(k) }

PositionArgs(q, starts) ==
    {NoPositions} \cup { [given |-> TRUE, ids |-> [i \in 0..(q - 1) |-> st + i]] : st \in starts }

Idle == [op |-> "none"]

InitFwd ==
    /\ config \in Configs
    /\ params = {"params"}
    /\ sess = [s \in {1} |-> [cache |-> NoCache, fed |-> 0]]
    /\ fwd = Idle

\* a session calls init_cache(batch_size, max_length) and keeps what it returns
InitCacheCall(s) ==
    \E batch_size \in 1..MaxBatch, max_length \in 1..MaxLen :
        LET r == init_cache(config, batch_size, max_length)
        IN /\ sess' = IF r.status = "cache"
                      THEN [sess EXCEPT ![s] = [cache |-> r, fed |-> 0]]
                      ELSE sess
           /\ fwd' = [op |-> "init_cache", session |-> s, batch_size |-> batch_size,
                      max_length |-> max_length, result |-> r]
           /\ UNCHANGED <<config, params, moe_vars, server>>

\* a session calls Forward with its cache as past_key_values
ForwardCached(s) ==
    /\ sess[s].cache # NoCache
    /\ \E q \in 1..MaxQ :
         /\ sess[s].cache.layers[0].index + q <= MaxIndex
         /\ \E am \in MaskArgs(sess[s].cache.layers[0].shape[2]),
               pi \in PositionArgs(q, {sess[s].fed}), rd \in BOOLEAN :
              LET call == [b |-> sess[s].cache.layers[0].shape[1], q |-> q,
                           toks |-> [i \in 0..(q - 1) |-> sess[s].fed + 1 + i],
                           attention_mask |-> am, position_ids |-> pi,
                           return_dict |-> rd, add_params_field |-> FALSE]
                  r == Forward(config, call, sess[s].cache)
              IN /\ sess' = IF r.status = "ok"
                            THEN [sess EXCEPT ![s] = [cache |-> r.past_key_values,
                                                      fed |-> sess[s].fed + q]]
                            ELSE sess
                 /\ params' = inputs_container(params, call, sess[s].cache)
                 /\ fwd' = [op |-> "forward", session |-> s, call |-> call,
                            before |-> sess[s].cache, params_before |-> params,
                            result |-> r]
    /\ UNCHANGED <<config, moe_vars, server>>

Init == InitFwd /\ moe_in = [tokens |-> 0] /\ moe_out = NoResult /\ server = NoServer

Next ==
    \/ \E s \in DOMAIN sess : InitCacheCall(s)
    \/ \E s \in DOMAIN sess : ForwardCached(s)

Spec == Init /\ [][Next]_vars

(***************************************************************************)
(* The generation loop on the helpers (SpecGenerate):                      *)
(* prepare_inputs_for_generation, then per iteration one Forward with the  *)
(* model_kwargs and, from its outputs, update_inputs_for_generation.  fwd  *)
(* holds the loop's state.                                                 *)
(***************************************************************************)
PromptMasks(s) == {NoMask} \cup { Mask(2, 1, s, [i \in {0} |-> v]) : v \in MaskVals(s) }

Cursor(cache) == cache.layers[0].index

GeneratePrepare ==
    /\ fwd = Idle
    /\ \E seq_length \in 1..MaxLen, max_length \in 1..(MaxLen + 1) :
         \E attention_mask \in PromptMasks(seq_length) :
            fwd' = [op |-> "generate",
                    seq_length |-> seq_length, max_length |-> max_length,
                    mask_given |-> attention_mask.rank # 0,
                    prepared |-> prepare_inputs_for_generation(config, 1, seq_length, max_length, attention_mask),
                    model_kwargs |-> prepare_inputs_for_generation(config, 1, seq_length, max_length, attention_mask),
                    q |-> seq_length, fed |-> 0, steps |-> 0, result |-> NoResult]
    /\ UNCHANGED <<config, params, sess, moe_vars, server>>

\* one iteration: the model call and update_inputs_for_generation
GenerateStep ==
    /\ fwd.op = "generate"
    /\ fwd.prepared.status = "ok"
    /\ fwd.result.status \in {"none", "ok"}
    /\ Cursor(fwd.model_kwargs.past_key_values) + fwd.q <= MaxIndex
    /\ LET call == generation_call(1, fwd.q, fwd.fed + 1, fwd.model_kwargs)
           r == Forward(config, call, fwd.model_kwargs.past_key_values)
       IN /\ fwd' = [fwd EXCEPT !.result = r,
                                !.steps = fwd.steps + 1,
                                !.model_kwargs = IF r.status = "ok" THEN update_inputs_for_generation(r, fwd.model_kwargs) ELSE fwd.model_kwargs,
                                !.fed = IF r.status = "ok" THEN fwd.fed + fwd.q ELSE fwd.fed,
                                !.q = IF r.status = "ok" THEN 1 ELSE fwd.q]
          /\ params' = inputs_container(params, call, fwd.model_kwargs.past_key_values)
    /\ UNCHANGED <<config, sess, moe_vars, server>>

NextGenerate == GeneratePrepare \/ GenerateStep

SpecGenerate == Init /\ [][NextGenerate]_vars

(***************************************************************************)
(* Two generation sessions on one model (SpecTwo).  Each session calls     *)
(* init_cache once and then Forward with the cache it holds, one token at  *)
(* a time, in any order with the other session's calls; calls do not       *)
(* overlap (the program is single-threaded).  The parameter container is   *)
(* kept with its values, so what one call leaves in it is there for the    *)
(* next.                                                                   *)
(***************************************************************************)
Sessions == {1, 2}

InitTwo ==
    /\ config \in { MixtralConfig(<<4, 4, 2>>, c) : c \in {MaxLen, MaxLen + 1} }
    /\ params = ModelParams
    /\ sess = [s \in Sessions |-> [cache |-> NoCache, fed |-> 0]]
    /\ fwd = Idle
    /\ moe_in = [tokens |-> 0]
    /\ moe_out = NoResult /\ server = NoServer

SessionInitCache(s) ==
    /\ sess[s].cache = NoCache
    /\ InitCacheCall(s)

\* attention_mask already expanded to (batch, 1, 1, max_length), the form a
\* cached Forward accepts, or omitted
SessionForward(s) ==
    /\ sess[s].cache # NoCache
    /\ sess[s].cache.layers[0].index + 1 <= MaxIndex
    /\ \E am \in {NoMask, OnesMask(4, 1, sess[s].cache.layers[0].shape[2])},
          pi \in PositionArgs(1, {sess[s].fed}) :
         LET call == [b |-> sess[s].cache.layers[0].shape[1], q |-> 1,
                      toks |-> [i \in {0} |-> 10 * s + sess[s].fed + 1],
                      attention_mask |-> am, position_ids |-> pi,
                      return_dict |-> FALSE, add_params_field |-> FALSE]
             r == ForwardOn(params, config, call, sess[s].cache)
         IN /\ sess' = IF r.status = "ok"
                       THEN [sess EXCEPT ![s] = [cache |-> r.past_key_values,
                                                 fed |-> sess[s].fed + 1]]
                       ELSE sess
            /\ params' = inputs(params, call, sess[s].cache)
            /\ fwd' = [op |-> "forward", session |-> s, call |-> call,
                       before |-> sess[s].cache, result |-> r]
    /\ UNCHANGED <<config, moe_vars, server>>

NextTwo ==
    \/ \E s \in Sessions : SessionInitCache(s)
    \/ \E s \in Sessions : SessionForward(s)

SpecTwo == InitTwo /\ [][NextTwo]_vars

(***************************************************************************)
(* One attention module called directly (SpecAttention): with init_cache   *)
(* to create its cache variables, then with or without them on one or      *)
(* more new positions.                                                     *)
(***************************************************************************)
Dtypes == {"float16", "bfloat16", "float32"}

InitAttention ==
    /\ config \in { [c EXCEPT !.use_flash_attention = f] : c \in Configs, f \in BOOLEAN }
    /\ params = {"params"}
    /\ sess = [s \in {1} |-> [cache |-> NoCache, fed |-> 0]]
    /\ fwd = Idle
    /\ moe_in = [tokens |-> 0]
    /\ moe_out = NoResult /\ server = NoServer

AttentionInitCache ==
    /\ \E max_length \in 1..MaxLen, dtype \in Dtypes :
         LET r == AttentionTraced(config, dtype, NoCache, TRUE, max_length,
                                  [i \in 0..(max_length - 1) |-> 1],
                                  OnesMask(2, 1, max_length), Arange(max_length))
         IN /\ sess' = IF r.status = "ok"
                       THEN [sess EXCEPT ![1] = [cache |-> r.cache, fed |-> 0]]
                       ELSE sess
            /\ fwd' = [op |-> "attention", init_cache |-> TRUE, dtype |-> dtype,
                       q |-> max_length, before |-> NoCache, result |-> r]
    /\ UNCHANGED <<config, params, moe_vars, server>>

AttentionCall ==
    /\ \E q \in 1..MaxQ, dtype \in Dtypes :
         /\ sess[1].cache # NoCache => sess[1].cache.index + q <= MaxIndex
         /\ sess[1].cache = NoCache => sess[1].fed = 0
         /\ \E am \in MaskArgs(IF sess[1].cache = NoCache THEN q ELSE sess[1].cache.shape[2]) \ {NoMask} :
              LET r == AttentionTraced(config, dtype, sess[1].cache, FALSE, q,
                                       [i \in 0..(q - 1) |-> sess[1].fed + 1 + i],
                                       am, [i \in 0..(q - 1) |-> sess[1].fed + i])
              IN /\ sess' = IF r.status = "ok" /\ sess[1].cache # NoCache
                            THEN [sess EXCEPT ![1] = [cache |-> r.cache,
                                                      fed |-> sess[1].fed + q]]
                            ELSE sess
                 /\ fwd' = [op |-> "attention", init_cache |-> FALSE, dtype |-> dtype,
                            q |-> q, before |-> sess[1].cache, result |-> r]
    /\ UNCHANGED <<config, params, moe_vars, server>>

NextAttention == AttentionInitCache \/ AttentionCall

SpecAttention == InitAttention /\ [][NextAttention]_vars

(***************************************************************************)
(* One decoder layer, one statement per step (SpecLayer).  fwd holds the   *)
(* local variables of __call__ and the sub-modules called so far.          *)
(***************************************************************************)
InitLayer ==
    /\ config \in Configs
    /\ params = {"params"}
    /\ sess = [s \in {1} |-> [cache |-> NoCache, fed |-> 0]]
    /\ \E layer \in 0..(MaxLayers - 1), batch \in 1..MaxTokens, oa \in BOOLEAN, orl \in BOOLEAN :
          fwd = [op |-> "layer", pc |-> 767, input |-> Input(layer, batch),
                 output_attentions |-> oa, output_router_logits |-> orl,
                 hidden_states |-> Input(layer, batch), residual |-> None,
                 self_attn_weights |-> None, router_logits |-> None,
                 calls |-> <<>>, outputs |-> <<>>]
    /\ moe_in = [tokens |-> 0]
    /\ moe_out = NoResult /\ server = NoServer

LayerStep(from, to) == fwd.op = "layer" /\ fwd.pc = from /\ UNCHANGED <<config, params, sess, moe_vars, server>>

\* line 767: residual = hidden_states
LayerResidual1 ==
    /\ LayerStep(767, 768)
    /\ fwd' = [fwd EXCEPT !.pc = 768, !.residual = fwd.hidden_states]

LayerInputNorm ==
    /\ LayerStep(768, 769)
    /\ fwd' = [fwd EXCEPT !.pc = 769,
                          !.hidden_states = input_layernorm(fwd.hidden_states),
                          !.calls = Append(fwd.calls, "input_layernorm")]

LayerSelfAttn ==
    /\ LayerStep(769, 780)
    /\ fwd' = [fwd EXCEPT !.pc = 780,
                          !.hidden_states = self_attn(fwd.hidden_states)[1],
                          !.self_attn_weights = self_attn(fwd.hidden_states)[2],
                          !.calls = Append(fwd.calls, "self_attn")]

\* lines 780 and 782: the sum, then residual = hidden_states
LayerAttnResidual ==
    /\ LayerStep(780, 783)
    /\ fwd' = [fwd EXCEPT !.pc = 783,
                          !.hidden_states = attn_residual(fwd.residual, fwd.hidden_states),
                          !.residual = attn_residual(fwd.residual, fwd.hidden_states)]

LayerPostNorm ==
    /\ LayerStep(783, 784)
    /\ fwd' = [fwd EXCEPT !.pc = 784,
                          !.hidden_states = post_attention_layernorm(fwd.hidden_states),
                          !.calls = Append(fwd.calls, "post_attention_layernorm")]

LayerMoe ==
    /\ LayerStep(784, 785)
    /\ fwd' = [fwd EXCEPT !.pc = 785,
                          !.hidden_states = block_sparse_moe(fwd.hidden_states)[1],
                          !.router_logits = block_sparse_moe(fwd.hidden_states)[2],
                          !.calls = Append(fwd.calls, "block_sparse_moe")]

LayerMoeResidual ==
    /\ LayerStep(785, 787)
    /\ fwd' = [fwd EXCEPT !.pc = 787,
                          !.hidden_states = moe_residual(fwd.residual, fwd.hidden_states)]

\* lines 787-792
LayerReturn ==
    /\ LayerStep(787, 793)
    /\ fwd' = [fwd EXCEPT !.pc = 793,
                          !.outputs = decoder_layer_outputs(fwd.hidden_states,
                                          fwd.self_attn_weights, fwd.router_logits,
                                          fwd.output_attentions, fwd.output_router_logits)]

NextLayer ==
    \/ LayerResidual1 \/ LayerInputNorm \/ LayerSelfAttn \/ LayerAttnResidual
    \/ LayerPostNorm \/ LayerMoe \/ LayerMoeResidual \/ LayerReturn

SpecLayer == InitLayer /\ [][NextLayer]_vars

(***************************************************************************)
(* Forward without past_key_values is a function of its arguments:         *)
(* SpecPlain draws nothing in Init but the config, and ForwardUncached     *)
(* applies the wrapper to every argument combination.                      *)
(***************************************************************************)
ForwardUncached ==
    /\ \E b \in 1..MaxBatch, q \in 1..MaxLen :
         \E am \in MaskArgs(q), pi \in PositionArgs(q, {0, 1}) :
            LET call == [b |-> b, q |-> q, toks |-> [i \in 0..(q - 1) |-> i + 1],
                         attention_mask |-> am, position_ids |-> pi,
                         return_dict |-> TRUE, add_params_field |-> FALSE]
            IN /\ fwd' = [op |-> "forward", session |-> 0, call |-> call,
                          before |-> NoCache, params_before |-> params,
                          result |-> Forward(config, call, NoCache)]
               /\ params' = inputs_container(params, call, NoCache)
    /\ UNCHANGED <<config, sess, moe_vars, server>>

NextPlain == ForwardUncached

SpecPlain == Init /\ [][NextPlain]_vars

(***************************************************************************)
(* The modules applied directly, with every combination of the two input  *)
(* arguments and of the three diagnostic flags (SpecModule).  A module is  *)
(* a function of its arguments, so one call per behaviour covers them.     *)
(***************************************************************************)
InitModule ==
    /\ config \in { [c EXCEPT !.output_router_logits = d, !.num_hidden_layers = n] :
                        c \in Configs, d \in BOOLEAN, n \in 1..MaxLayers }
    /\ params = {"params"}
    /\ sess = [s \in {1} |-> [cache |-> NoCache, fed |-> 0]]
    /\ fwd = Idle
    /\ moe_in = [tokens |-> 0]
    /\ moe_out = NoResult /\ server = NoServer

\* module.apply of FlaxMixtralForCausalLMModule (causal_lm) or FlaxMixtralModule
ModuleCall ==
    /\ fwd = Idle
    /\ \E causal_lm \in BOOLEAN, has_input_ids \in BOOLEAN, has_inputs_embeds \in BOOLEAN,
          b \in 1..MaxBatch, q \in 1..MaxLen,
          ohs \in Flags, oa \in Flags, orl \in Flags :
          LET call == [has_input_ids |-> has_input_ids,
                       has_inputs_embeds |-> has_inputs_embeds, b |-> b, q |-> q,
                       output_hidden_states |-> ohs, output_attentions |-> oa,
                       output_router_logits |-> orl]
          IN fwd' = [op |-> "module", causal_lm |-> causal_lm, call |-> call,
                     result |-> IF causal_lm THEN CausalLMModule(config, call)
                                ELSE MixtralModule(config, call)]
    /\ UNCHANGED <<config, params, sess, moe_vars, server>>

NextModule == ModuleCall

SpecModule == InitModule /\ [][NextModule]_vars

(***************************************************************************)
(* Construction from every small config (SpecConstruct)                    *)
(***************************************************************************)
VocabSizes == {-1, 0, 1, 2}

\* MixtralConfig.__init__, lines 117-158: the values are stored as given;
\* num_key_value_heads defaults to num_attention_heads
InitConstruct ==
    /\ config \in { [hidden_size |-> h, num_attention_heads |-> a,
                     num_key_value_heads |-> a, num_hidden_layers |-> NumLayers,
                     vocab_size |-> v, num_local_experts |-> E,
                     num_experts_per_tok |-> k] :
                        h \in 1..MaxHidden, a \in 1..MaxHidden, v \in VocabSizes,
                        E \in 1..MaxExperts, k \in 1..MaxExperts }
    /\ params = {"params"}
    /\ sess = [s \in {1} |-> [cache |-> NoCache, fed |-> 0]]
    /\ fwd = Idle
    /\ moe_in = [tokens |-> 0]
    /\ moe_out = NoResult /\ server = NoServer

ConstructCall ==
    /\ fwd = Idle
    /\ fwd' = [op |-> "construct", result |-> Construct(config)]
    /\ UNCHANGED <<config, params, sess, moe_vars, server>>

NextConstruct == ConstructCall

SpecConstruct == InitConstruct /\ [][NextConstruct]_vars

(***************************************************************************)
(* The load-balancing loss on every small tuple of router logits           *)
(* (SpecLoss)                                                              *)
(***************************************************************************)
\* the router logits of layer i: the rows of l, rotated by i
layer_gate(l, T, i) == [t \in 0..(T - 1) |-> l[(t + i) % T]]

\* the numbers of tokens and of layers whose router logits enter the loss
LossTokenCounts == {1, 2}
LossLayerCounts == {1, 2}

InitLoss ==
    /\ \E E \in 1..MaxExperts, T \in LossTokenCounts :
         \E k \in 1..E :
            moe_in \in { [num_local_experts |-> E, num_experts_per_tok |-> k, tokens |-> T,
                          gate_logits |-> g] :
                            g \in {None} \cup
                                  { Some([i \in 1..n |-> layer_gate(l, T, i - 1)]) :
                                        l \in [0..(T - 1) -> [0..(E - 1) -> LogitValues]],
                                        n \in LossLayerCounts } }
    /\ moe_out = NoResult /\ server = NoServer
    /\ config = MixtralConfig(<<4, 2, 1>>, MaxLen)
    /\ params = {"params"}
    /\ sess = [s \in {1} |-> [cache |-> NoCache, fed |-> 0]]
    /\ fwd = Idle

LossCall ==
    /\ moe_out = NoResult
    /\ moe_out' = [status |-> "ok",
                   loss |-> jax_load_balancing_loss_func(moe_in.gate_logits,
                                                         moe_in.num_local_experts,
                                                         moe_in.num_experts_per_tok)]
    /\ UNCHANGED <<moe_in, fwd_vars, server>>

NextLoss == LossCall

SpecLoss == InitLoss /\ [][NextLoss]_vars

(***************************************************************************)
(* The server object and its caller (SpecServe, SpecServeFair).  One       *)
(* caller thread calls load, the request handlers, fire and end; a call of *)
(* end that waits in join keeps that thread.  The gradio handlers are      *)
(* iterated to the end, as gradio does.  A uvicorn process ends only from  *)
(* outside the program (a signal, a failed start): UvicornExits.           *)
(***************************************************************************)
MaxFires == 2        \* most calls of fire
MaxChunks == 2       \* most chunks the streamer hands over for one prompt

Prompts == {"hi", "bye"}
Systems == {"sys"}
Chunks == {"a", "b"}
Histories == {<<>>, <<<<"hi", <<"a">>>>>>}
Generations == UNION { [1..n -> Chunks] : n \in 0..MaxChunks }

InitServe ==
    /\ \E formats \in BOOLEAN : server = PyTorchServer(formats)
    /\ moe_in = [tokens |-> 0]
    /\ moe_out = NoResult
    /\ config = MixtralConfig(<<4, 2, 1>>, MaxLen)
    /\ params = {"params"}
    /\ sess = [s \in {1} |-> [cache |-> NoCache, fed |-> 0]]
    /\ fwd = [op |-> "none"]

CallerFree == server.status = "up" /\ server.call.op \notin {"join"}

Returned(op, loaded, result) == [op |-> op, loaded |-> loaded, result |-> result]

ServeLoad ==
    /\ CallerFree
    /\ server' = [load(server, "repo") EXCEPT !.call = Returned("load", server.model.some, [status |-> "ok"])]
    /\ UNCHANGED <<moe_vars, fwd_vars>>

ServeForwardChat ==
    /\ CallerFree
    /\ \E prompt \in Prompts, history \in Histories :
          server' = [server EXCEPT !.call = Returned("forward_chat_fast_api", server.model.some, forward_chat_fast_api(server, [system |-> "sys", history |-> history, prompt |-> prompt]))]
    /\ UNCHANGED <<moe_vars, fwd_vars>>

ServeForwardInstruct ==
    /\ CallerFree
    /\ \E instruction \in Prompts, system \in Systems :
          server' = [server EXCEPT !.call = Returned("forward_instruct_fast_api", server.model.some, forward_instruct_fast_api(server, [system |-> system, instruction |-> instruction]))]
    /\ UNCHANGED <<moe_vars, fwd_vars>>

ServeGradioChat ==
    /\ CallerFree
    /\ \E prompt \in Prompts, history \in Histories, generated \in Generations :
          server' = [server EXCEPT !.call = Returned("process_gradio_chat", server.model.some, process_gradio_chat(server, prompt, history, generated))]
    /\ UNCHANGED <<moe_vars, fwd_vars>>

ServeGradioInstruct ==
    /\ CallerFree
    /\ \E instruction \in Prompts, system \in Systems, generated \in Generations :
          server' = [server EXCEPT !.call = Returned("process_gradio_instruct", server.model.some, process_gradio_instruct(server, instruction, system, generated))]
    /\ UNCHANGED <<moe_vars, fwd_vars>>

ServeFire ==
    /\ CallerFree
    /\ Len(server.procs) < MaxFires
    /\ server' = [fire(server) EXCEPT !.call = Returned("fire", server.model.some, [status |-> "ok"])]
    /\ UNCHANGED <<moe_vars, fwd_vars>>

\* lines 585-588: join the process, or log the warning and return
ServeEnd ==
    /\ CallerFree
    /\ server' = [server EXCEPT !.call = IF server.process_uvicorn.some THEN [op |-> "join", loaded |-> server.model.some, before |-> [server EXCEPT !.call = None]] ELSE Returned("end", server.model.some, [status |-> "ok", warning |-> "you have to fire server before ending that this command will be ignored", before |-> [server EXCEPT !.call = None]])]
    /\ UNCHANGED <<moe_vars, fwd_vars>>

\* line 586: join returns
ServeEndJoined ==
    /\ server.status = "up"
    /\ server.call.op = "join"
    /\ join_returns(server)
    /\ server' = [server EXCEPT !.call = Returned("end", server.call.loaded, [status |-> "ok", joined |-> server.process_uvicorn.val, before |-> server.call.before])]
    /\ UNCHANGED <<moe_vars, fwd_vars>>

\* uvicorn.run (line 571) returns or the process is killed
UvicornExits ==
    /\ server.status = "up"
    /\ \E p \in 1..Len(server.procs) :
          /\ server.procs[p] = "running"
          /\ server' = [server EXCEPT !.procs[p] = "exited"]
    /\ UNCHANGED <<moe_vars, fwd_vars>>

NextServe ==
    \/ ServeLoad \/ ServeForwardChat \/ ServeForwardInstruct
    \/ ServeGradioChat \/ ServeGradioInstruct
    \/ ServeFire \/ ServeEnd \/ ServeEndJoined \/ UvicornExits

SpecServe == InitServe /\ [][NextServe]_vars

\* a thread waiting in join runs again once the process has exited
SpecServeFair == SpecServe /\ WF_vars(ServeEndJoined)

(***************************************************************************)
(* The routing block as a state machine: Init draws one call's inputs,     *)
(* MoeCall applies the block to them.                                      *)
(***************************************************************************)
InitMoE ==
    /\ \E E \in 1..MaxExperts, T \in 1..MaxTokens :
         \E k \in 1..E :
            moe_in \in { [num_local_experts |-> E, num_experts_per_tok |-> k, tokens |-> T,
                          router_logits |-> l, hidden_states |-> h] :
                            l \in [0..(T - 1) -> [0..(E - 1) -> LogitValues]],
                            h \in { [t \in 0..(T - 1) |-> t + 1],
                                    [t \in 0..(T - 1) |-> T - t] } }
    /\ moe_out = NoResult /\ server = NoServer
    /\ config = MixtralConfig(<<4, 2, 1>>, MaxLen)
    /\ params = {"params"}
    /\ sess = [s \in {1} |-> [cache |-> NoCache, fed |-> 0]]
    /\ fwd = Idle

MoeCall ==
    /\ moe_out = NoResult
    /\ moe_out' = SparseMoeBlock(moe_in)
    /\ UNCHANGED <<moe_in, fwd_vars, server>>

NextMoE == MoeCall

SpecMoE == InitMoE /\ [][NextMoE]_vars

(***************************************************************************)
(* Properties of the routing block                                         *)
(***************************************************************************)
MoeDone == moe_out.status = "ok"
MoeTokens == 0..(moe_in.tokens - 1)
MoeSlots == 0..(moe_in.num_experts_per_tok - 1)
MoeExperts == 0..(moe_in.num_local_experts - 1)

\* the weighted sum of the outputs of the experts token t selected
ExpectedCombined(t) ==
    RatSumFn([s \in MoeSlots |->
                 RatMul(moe_out.routing_weights[t][s],
                        <<expert_layer(moe_out.selected_experts[t][s],
                                       moe_in.hidden_states[t]), 1>>)],
             moe_in.num_experts_per_tok)

\* C1: for every flattened token position t the combined output at t is the
\* sum over the k experts selected for t of routing_weight(t, e) *
\* Expert_e(hidden[t]); no token is dropped.
C1_CombinedIsWeightedExpertSum ==
    MoeDone => \A t \in MoeTokens :
        RatEq(moe_out.final_hidden_states[t], ExpectedCombined(t))

C7_SelectionWithoutReplacement ==
    MoeDone => \A t \in MoeTokens :
        /\ \A s \in MoeSlots : moe_out.selected_experts[t][s] \in MoeExperts
        /\ \A s1, s2 \in MoeSlots :
              s1 # s2 => moe_out.selected_experts[t][s1] # moe_out.selected_experts[t][s2]
        /\ Cardinality({e \in MoeExperts :
                          \E s \in MoeSlots : moe_out.expert_mask[e][s][t] = 1})
              = moe_in.num_experts_per_tok
        /\ \A e \in MoeExperts :
              Cardinality({s \in MoeSlots : moe_out.expert_mask[e][s][t] = 1}) <= 1

\* a call with k >= 2 and two tokens, one of them with tied logits
C7_Witness ==
    /\ MoeDone
    /\ moe_in.num_experts_per_tok >= 2
    /\ moe_in.tokens >= 2
    /\ \E t \in MoeTokens : \A e \in MoeExperts :
          moe_in.router_logits[t][e] = moe_in.router_logits[t][0]


(***************************************************************************)
(* Properties of InitCache and of Forward with a cache (Spec)              *)
(***************************************************************************)
ForwardDone == fwd.op = "forward"
CachedForwardDone == ForwardDone /\ fwd.before # NoCache
CacheLayers == 0..(NumLayers - 1)
\* the attention mask was omitted or marks every position valid
MaskAllValid(m) == m.rank = 0 \/ \A j \in 0..(m.kdim - 1) : m.val[0][j] = 1
\* the call's tokens fit behind the cursor of the cache it was given
WithinCapacity ==
    \A l \in CacheLayers :
        fwd.before.layers[l].index + fwd.call.q <= fwd.before.layers[l].shape[2]

\* C2: in every cache a session holds, every layer's cursor is at most the
\* cache's allocated length max_length.
C2_CursorWithinCacheLength ==
    \A s \in DOMAIN sess :
        sess[s].cache # NoCache =>
            \A l \in CacheLayers :
                sess[s].cache.layers[l].index <= sess[s].cache.layers[l].shape[2]

\* C3: a Forward call (position_ids given) whose tokens would carry the cursor
\* past max_length fails: it returns no logits and the session's cache is the
\* one it had before, no earlier slot overwritten.
C3_OverflowIsFatal ==
    (CachedForwardDone /\ fwd.call.position_ids.given /\ ~WithinCapacity)
        => /\ fwd.result.status # "ok"
           /\ sess[fwd.session].cache = fwd.before

\* C4: a Forward call with a cache (position_ids given, no padding in the
\* mask, tokens fitting the cache) advances every layer's cursor by the
\* number of tokens it processed, and a single-token call that leaves the
\* cursor at n may attend to exactly the slots 0..n-1.
C4_CursorAdvancesAndMaskCoversFilledSlots ==
    (CachedForwardDone /\ fwd.call.position_ids.given /\ WithinCapacity
        /\ MaskAllValid(fwd.call.attention_mask))
        => /\ fwd.result.status = "ok"
           /\ \A l \in CacheLayers :
                 /\ fwd.result.past_key_values.layers[l].index
                        = fwd.before.layers[l].index + fwd.call.q
                 /\ fwd.call.q = 1 =>
                        fwd.result.allowed[l][0]
                            = 0..(fwd.result.past_key_values.layers[l].index - 1)

\* the cache holds the tokens 1..n of a sequence at the positions 0..n-1
HoldsPrefix(cache) ==
    \A l \in CacheLayers :
        \A j \in 0..(cache.layers[l].index - 1) :
            /\ j < cache.layers[l].shape[2]
            /\ cache.layers[l].key[j] = [tok |-> j + 1, pos |-> j]
FullPass(n) ==
    Forward(config,
            [b |-> fwd.call.b, q |-> n, toks |-> [i \in 0..(n - 1) |-> i + 1],
             attention_mask |-> NoMask, position_ids |-> NoPositions,
             return_dict |-> TRUE, add_params_field |-> FALSE],
            NoCache)

\* C5: feeding a sequence one token at a time through a cache (default mask,
\* true positions) gives at step t the logits a single Forward without a
\* cache over the tokens 1..t gives at its last position.
C5_CachedStepsEqualFullPass ==
    (CachedForwardDone /\ fwd.call.q = 1 /\ fwd.call.position_ids.given
        /\ WithinCapacity /\ MaskAllValid(fwd.call.attention_mask)
        /\ HoldsPrefix(fwd.before))
        => /\ fwd.result.status = "ok"
           /\ fwd.result.logits[0]
                  = FullPass(fwd.before.layers[0].index + 1).logits[fwd.before.layers[0].index]

InitCacheDone == fwd.op = "init_cache"
AllZero(layer) ==
    /\ DOMAIN layer.key = 0..(layer.shape[2] - 1)
    /\ \A j \in DOMAIN layer.key : layer.key[j] = ZeroKey /\ layer.value[j] = ZeroValue

\* C8 as stated: InitCache(batch_size, max_length) returns for every layer
\* all-zero key and value storage of shape
\* (batch_size, max_length, num_key_value_heads, head_dim) and cursor 0.
C8_InitCacheShapeKeyValueHeads ==
    InitCacheDone =>
        /\ fwd.result.status = "cache"
        /\ \A l \in CacheLayers :
              /\ fwd.result.layers[l].shape
                     = <<fwd.batch_size, fwd.max_length,
                         config.num_key_value_heads, head_dim(config)>>
              /\ AllZero(fwd.result.layers[l])
              /\ fwd.result.layers[l].index = 0

\* C8 amended: InitCache(batch_size, max_length) with max_length at most
\* c_max_position_embeddings returns for every layer all-zero key and value
\* storage of shape (batch_size, max_length, H, head_dim) and cursor 0, where
\* H = num_key_value_heads * (num_attention_heads // num_key_value_heads) is
\* the number of heads after the key/value heads are repeated; with a longer
\* max_length it returns no cache.
C8_InitCacheShapeRepeatedHeads ==
    InitCacheDone =>
        IF fwd.max_length <= config.c_max_position_embeddings
        THEN /\ fwd.result.status = "cache"
             /\ \A l \in CacheLayers :
                   /\ fwd.result.layers[l].shape
                          = <<fwd.batch_size, fwd.max_length,
                              config.num_key_value_heads
                                  * (config.num_attention_heads \div config.num_key_value_heads),
                              config.hidden_size \div config.num_attention_heads>>
                   /\ AllZero(fwd.result.layers[l])
                   /\ fwd.result.layers[l].index = 0
        ELSE fwd.result.status # "cache"

\* InitCache returned a cache for a configuration with fewer key/value heads
\* than attention heads
C8_Witness ==
    /\ InitCacheDone
    /\ fwd.result.status = "cache"
    /\ fwd.max_length >= 2
    /\ config.num_key_value_heads < config.num_attention_heads

\* C9: Forward with a cache and position_ids omitted raises the usage error
\* of the wrapper, ahead of anything the module would raise, and leaves the
\* session's cache and the parameter container as they were.
C9_CacheWithoutPositionsIsUsageError ==
    (CachedForwardDone /\ ~fwd.call.position_ids.given)
        => /\ fwd.result.status = "ValueError"
           /\ sess[fwd.session].cache = fwd.before
           /\ params = fwd.params_before

\* a cache that already holds tokens was passed without position_ids
C9_Witness ==
    /\ CachedForwardDone
    /\ ~fwd.call.position_ids.given
    /\ fwd.before.layers[0].index > 0
    /\ fwd.result.status = "ValueError"

\* C20: a Forward call with a cache that processes q > 1 new positions from
\* the cursor c on lets the query at position c + i attend only to slots
\* j <= c + i.
C20_CachedQueriesAreCausal ==
    (CachedForwardDone /\ fwd.call.q > 1 /\ fwd.result.status = "ok" /\ WithinCapacity)
        => \A l \in CacheLayers : \A i \in 0..(fwd.call.q - 1) :
              fwd.result.allowed[l][i] \subseteq 0..(fwd.before.layers[l].index + i)

\* C17: a Forward call, with or without past_key_values, leaves the
\* parameter container as it was: no "cache" entry is added to it.
C17_ForwardLeavesParamsUnchanged ==
    ForwardDone => params = fwd.params_before /\ "cache" \notin params

(***************************************************************************)
(* Properties of two sessions (SpecTwo)                                    *)
(***************************************************************************)
\* C18: two sessions that each use their own cache from init_cache do not
\* interfere, in whatever order their Forward calls are made: a Forward of
\* one session leaves the other session's cache and cursor as they were, and
\* returns what the same call returns on the session's own cache alone.
C18_SessionsDoNotInterfere ==
    [][ fwd'.op = "forward" =>
            /\ \A t \in Sessions \ {fwd'.session} : sess'[t] = sess[t]
            /\ fwd'.result = Forward(config, fwd'.call, fwd'.before)
            /\ fwd'.result.status = "ok" =>
                   sess'[fwd'.session].cache = fwd'.result.past_key_values ]_vars

\* the second session's first Forward succeeded after the first session had
\* advanced, and the container holds the cache that call was given
C18_Witness ==
    /\ ForwardDone
    /\ fwd.session = 2
    /\ fwd.result.status = "ok"
    /\ sess[2].fed = 1
    /\ sess[1].fed > 0
    /\ sess[1].cache # sess[2].cache
    /\ params["cache"] = fwd.before

(***************************************************************************)
(* Properties of the attention module (SpecAttention)                      *)
(***************************************************************************)
AttentionDone == fwd.op = "attention" /\ fwd.result.status = "ok"

\* C22: the chunked (flash) path is taken only when no cache is active:
\* whenever the module holds cache variables or init_cache is set, the dense
\* path is used, even if use_flash_attention is true.
C22_FlashOnlyWithoutCache ==
    (AttentionDone /\ (fwd.before # NoCache \/ fwd.init_cache))
        => fwd.result.path = "dense"

\* C25: the additive bias is 0 at exactly the (query, key) pairs that both
\* the causal mask and the attention mask (with the cache-validity mask when
\* there is a cache) allow, and the minimum of the active dtype at every
\* other pair, on the dense and on the chunked path.
C25_BiasIsZeroWhereBothMasksAllow ==
    AttentionDone =>
        \A i \in DOMAIN fwd.result.attention_bias :
            \A j \in DOMAIN fwd.result.attention_bias[i] :
                fwd.result.attention_bias[i][j]
                    = IF /\ fwd.result.causal_mask.val
                                [BIdx(i, fwd.result.causal_mask.qdim)]
                                [BIdx(j, fwd.result.causal_mask.kdim)] = 1
                         /\ fwd.result.attention_mask.val
                                [BIdx(i, fwd.result.attention_mask.qdim)]
                                [BIdx(j, fwd.result.attention_mask.kdim)] = 1
                      THEN zero_of(fwd.dtype) ELSE finfo_min(fwd.dtype)

\* a bias with open and closed pairs was built on the chunked path
C25_Witness ==
    /\ AttentionDone
    /\ fwd.result.path = "flash"
    /\ \E i \in DOMAIN fwd.result.attention_bias :
          \E j, n \in DOMAIN fwd.result.attention_bias[i] :
              /\ fwd.result.attention_bias[i][j] = zero_of(fwd.dtype)
              /\ fwd.result.attention_bias[i][n] = finfo_min(fwd.dtype)

(***************************************************************************)
(* Properties of the decoder layer (SpecLayer)                             *)
(***************************************************************************)
LayerDone == fwd.op = "layer" /\ fwd.pc = 793
AfterAttention(h) == Plus(h, Applied("self_attn", Applied("input_layernorm", h)))
AfterRouting(h1) ==
    Plus(h1, Applied("block_sparse_moe", Applied("post_attention_layernorm", h1)))
Position(calls, name) == CHOOSE i \in 1..Len(calls) : calls[i] = name

\* C24: a decoder layer computes h1 = h + Attention(input_layernorm(h)) and
\* returns h1 + RoutingBlock(post_attention_layernorm(h1)); each sub-layer
\* is given the normalized input, the residual added is the sub-layer's
\* un-normalized input, and attention runs strictly before routing.
C24_PreNormResidualLayer ==
    LayerDone =>
        /\ fwd.outputs[1] = AfterRouting(AfterAttention(fwd.input))
        /\ fwd.calls = <<"input_layernorm", "self_attn",
                         "post_attention_layernorm", "block_sparse_moe">>
        /\ Position(fwd.calls, "self_attn") < Position(fwd.calls, "block_sparse_moe")

\* a layer returned, with its attention weights and router logits
C24_Witness ==
    /\ LayerDone
    /\ Len(fwd.outputs) = 3
    /\ fwd.outputs[1].op = "add"

(***************************************************************************)
(* Properties of Forward without a cache (SpecPlain)                       *)
(***************************************************************************)
\* C10: Forward without a cache, attention_mask and position_ids both
\* omitted, returns what the same call returns with an all-ones mask and the
\* positions 0..q-1 passed explicitly.
C10_DefaultsEqualExplicitOnesAndArange ==
    (ForwardDone /\ fwd.before = NoCache
        /\ fwd.call.attention_mask = NoMask /\ ~fwd.call.position_ids.given)
        => fwd.result
               = Forward(config,
                         [fwd.call EXCEPT
                             !.attention_mask = OnesMask(2, 1, fwd.call.q),
                             !.position_ids = [given |-> TRUE, ids |-> Arange(fwd.call.q)]],
                         NoCache)

\* a call of two or more tokens with both arguments omitted returned logits
C10_Witness ==
    /\ ForwardDone
    /\ fwd.before = NoCache
    /\ fwd.call.attention_mask = NoMask
    /\ ~fwd.call.position_ids.given
    /\ fwd.call.q >= 2
    /\ fwd.result.status = "ok"


(***************************************************************************)
(* Properties of the modules applied directly (SpecModule)                 *)
(***************************************************************************)
ModuleDone == fwd.op = "module"
\* the call passed input_ids alone and a sequence the causal mask covers
PlainModuleCall ==
    /\ ModuleDone
    /\ fwd.call.has_input_ids /\ ~fwd.call.has_inputs_embeds
    /\ fwd.call.q <= config.c_max_position_embeddings
Requested(flag, default) == flag = "True" \/ (flag = "None" /\ default)

\* C11: the module raises the input error exactly when input_ids and
\* inputs_embeds are both supplied or both missing, and not when exactly one
\* of them is supplied.
C11_InputErrorIffBothOrNeither ==
    ModuleDone =>
        ((fwd.result.status = "ValueError")
            <=> (fwd.call.has_input_ids = fwd.call.has_inputs_embeds))

\* C13: the causal-LM forward succeeds whether or not router logits are
\* requested, returns an aux_loss when they are requested (by the argument or
\* by the config default) and None when they are not.
C13_AuxLossIffRouterLogitsRequested ==
    (PlainModuleCall /\ fwd.causal_lm)
        => /\ fwd.result.status = "ok"
           /\ Requested(fwd.call.output_router_logits, config.output_router_logits)
                  <=> (fwd.result.aux_loss # None)

\* the traces a module of N layers owes for the resolved flags
ExpectedHiddenTrace(N) ==
    [i \in 1..(N + 1) |-> IF i <= N THEN Hidden(i - 1, FALSE) ELSE Hidden(N, TRUE)]
IsLayerTrace(trace, N) ==
    /\ trace.some
    /\ Len(trace.val) = N
    /\ \A i \in 1..N : trace.val[i].layer = i - 1

\* C16: for each combination of output_hidden_states, output_attentions and
\* output_router_logits, FlaxMixtralModule succeeds and every module call
\* that succeeds returns a trace for exactly the requested diagnostics and
\* None for the others; the attention and router-logit traces have one entry
\* per layer in layer order, each from that layer's own output, and the
\* hidden-state trace is the input of every layer in order followed by the
\* final normalized state.
C16_TracesExactlyAsRequested ==
    /\ (PlainModuleCall /\ ~fwd.causal_lm) => fwd.result.status = "ok"
    /\ (ModuleDone /\ fwd.result.status = "ok") =>
          /\ IF Requested(fwd.call.output_hidden_states, config.output_hidden_states)
             THEN fwd.result.hidden_states = Some(ExpectedHiddenTrace(config.num_hidden_layers))
             ELSE fwd.result.hidden_states = None
          /\ IF Requested(fwd.call.output_attentions, config.output_attentions)
             THEN IsLayerTrace(fwd.result.attentions, config.num_hidden_layers)
             ELSE fwd.result.attentions = None
          /\ IF Requested(fwd.call.output_router_logits, config.output_router_logits)
             THEN IsLayerTrace(fwd.result.router_logits, config.num_hidden_layers)
             ELSE fwd.result.router_logits = None

\* a module of two or more layers returned all three traces
C16_Witness ==
    /\ ModuleDone
    /\ ~fwd.causal_lm
    /\ fwd.result.status = "ok"
    /\ config.num_hidden_layers >= 2
    /\ fwd.call.output_hidden_states = "True"
    /\ fwd.call.output_attentions = "True"
    /\ fwd.call.output_router_logits = "True"


(***************************************************************************)
(* Experts that no token selected (SpecMoE)                                *)
(***************************************************************************)
Unselected(e) ==
    \A t \in MoeTokens : \A s \in MoeSlots : moe_out.selected_experts[t][s] # e

\* the combined output after the loop has processed expert e alone, starting
\* from final
AfterExpert(e, final) ==
    experts_loop(e, e + 1, final, moe_out.expert_mask, moe_in.hidden_states,
                 moe_out.routing_weights, <<moe_in.num_experts_per_tok, moe_in.tokens>>)

\* C19: an expert that no token selected adds nothing to the combined
\* output, and processing it raises no error.
C19_UnselectedExpertAddsNothing ==
    moe_out # NoResult =>
        /\ moe_out.status = "ok"
        /\ \A e \in MoeExperts : Unselected(e) =>
              /\ AfterExpert(e, moe_out.final_hidden_states) = moe_out.final_hidden_states
              /\ AfterExpert(e, [t \in MoeTokens |-> <<1, 1>>]) = [t \in MoeTokens |-> <<1, 1>>]

\* the block ran with an expert that no token selected, for which the loop
\* gathered the padding of jnp.nonzero
C19_Witness ==
    /\ MoeDone
    /\ \E e \in MoeExperts :
          /\ Unselected(e)
          /\ \A i \in 1..moe_in.tokens : moe_out.gathered[e][i].top_x = -1

\* the (token position, slot) pairs the loop gathered for expert e
GatheredFor(e) ==
    { <<moe_out.gathered[e][i].row, moe_out.gathered[e][i].idx>> : i \in 1..moe_in.tokens }

\* the (token position, slot) pairs at which expert e was selected
SelectedFor(e) ==
    { <<t, s>> \in MoeTokens \X MoeSlots : moe_out.selected_experts[t][s] = e }

\* C21: for every expert e the token positions gathered and fed to e are
\* exactly the positions of the tokens that selected e, each with that
\* token's routing weight for e (the weight of the slot in which it selected
\* e); position 0 is among them when token 0 selected e, and no other
\* position stands in for it.
C21_GatheredAreExactlyTheSelectingTokens ==
    MoeDone => \A e \in MoeExperts : GatheredFor(e) = SelectedFor(e)

\* the combined output after the loop has processed the experts in the
\* order given, starting from final
RECURSIVE AfterExperts(_, _)
AfterExperts(order, final) ==
    IF order = <<>> THEN final
    ELSE AfterExperts(Tail(order), AfterExpert(Head(order), final))

ExpertOrders ==
    { [i \in 1..moe_in.num_local_experts |-> p[i - 1]] : p \in Permutations(MoeExperts) }

\* C23: the combined output of the routing block does not depend on the
\* order in which the experts are processed: every permutation of the loop
\* order gives the output the block returned.
C23_ExpertOrderDoesNotMatter ==
    MoeDone => \A order \in ExpertOrders :
        AfterExperts(order, [t \in MoeTokens |-> RatZero]) = moe_out.final_hidden_states

\* the block ran with two experts that were both selected, by some token
C23_Witness ==
    /\ MoeDone
    /\ \E e, f \in MoeExperts : e # f /\ ~Unselected(e) /\ ~Unselected(f)

(***************************************************************************)
(* Properties of construction (SpecConstruct)                              *)
(***************************************************************************)
ConstructDone == fwd.op = "construct"
InvalidConfig ==
    \/ config.hidden_size % config.num_attention_heads # 0
    \/ config.vocab_size <= 0
    \/ config.num_experts_per_tok > config.num_local_experts

LossDone == moe_out.status = "ok" /\ moe_in.gate_logits.some
LossGate == concatenate_gates(moe_in.gate_logits.val)
LossRows == DOMAIN LossGate
LossExperts == 0..(moe_in.num_local_experts - 1)
LossSelected == loss_selected_experts(LossGate, moe_in.num_experts_per_tok)
LossWeights == loss_routing_weights(LossGate, LossSelected, moe_in.num_experts_per_tok)
LossSlotsOf(t, e) == {s \in 0..(moe_in.num_experts_per_tok - 1) : LossSelected[t][s] = e}

\* the fraction of the rows that selected expert e
FractionRouted(e) ==
    Rat(Cardinality({t \in LossRows : LossSlotsOf(t, e) # {}}), Cardinality(LossRows))

\* the routing weight given to expert e, averaged over the rows
MeanRoutingProbability(e) ==
    RatDiv(RatSumFn([t \in 0..(Cardinality(LossRows) - 1) |->
                        IF LossSlotsOf(t, e) = {} THEN RatZero
                        ELSE LossWeights[t][CHOOSE s \in LossSlotsOf(t, e) : TRUE]],
                    Cardinality(LossRows)),
           <<Cardinality(LossRows), 1>>)

ExpectedLoss ==
    RatMul(RatDiv(RatSumFn([e \in LossExperts |->
                               RatMul(FractionRouted(e), MeanRoutingProbability(e))],
                           moe_in.num_local_experts),
                  <<moe_in.num_local_experts, 1>>),
           <<moe_in.num_local_experts * moe_in.num_local_experts, 1>>)

\* C14: the loss equals num_experts^2 times the mean over the experts of (the
\* fraction of tokens routed to the expert) times (the mean routing
\* probability given to the expert), both averaged over all tokens, with the
\* top-k selection and the weights recomputed from the raw logits.
C14_LossIsMeanOfFractionTimesProbability ==
    LossDone => RatEq(moe_out.loss, ExpectedLoss)

PermuteExperts(gates, p) ==
    [i \in DOMAIN gates |-> [t \in DOMAIN gates[i] |->
        [e \in DOMAIN gates[i][t] |-> gates[i][t][p[e]]]]]

\* C15: the loss does not change when the expert columns of the router
\* logits are permuted.
C15_LossInvariantUnderExpertPermutation ==
    LossDone => \A p \in Permutations(LossExperts) :
        RatEq(jax_load_balancing_loss_func(
                  Some(PermuteExperts(moe_in.gate_logits.val, p)),
                  moe_in.num_local_experts, moe_in.num_experts_per_tok),
              moe_out.loss)

\* a loss was computed from logits that prefer some expert over another and
\* a permutation of the columns changes them
C15_Witness ==
    /\ LossDone
    /\ moe_in.num_local_experts >= 2
    /\ \E p \in Permutations(LossExperts) :
          PermuteExperts(moe_in.gate_logits.val, p) # moe_in.gate_logits.val


LossReturned == moe_out.status = "ok"

\* C30: the value jax_load_balancing_loss_func returns does not depend on the
\* router logits: it is num_experts / top_k for every logit matrix and every
\* top_k <= num_experts, and 0 when gate_logits is None.
C30_LossIsNumExpertsOverTopK ==
    LossReturned =>
        IF moe_in.gate_logits.some
        THEN RatEq(moe_out.loss, <<moe_in.num_local_experts, moe_in.num_experts_per_tok>>)
        ELSE moe_out.loss = RatZero

\* a loss computed from logits that differ within a row and between rows,
\* with fewer experts selected than there are
C30_Witness ==
    /\ LossDone
    /\ moe_in.num_experts_per_tok < moe_in.num_local_experts
    /\ \E t \in LossRows : \E e1, e2 \in LossExperts : LossGate[t][e1] # LossGate[t][e2]
    /\ \E t1, t2 \in LossRows : LossGate[t1] # LossGate[t2]
    /\ RatEq(moe_out.loss, <<moe_in.num_local_experts, moe_in.num_experts_per_tok>>)

(***************************************************************************)
(* Properties of the server (SpecServe, SpecServeFair)                     *)
(***************************************************************************)
HandlerReturned(ops) == server.call.op \in ops /\ server.call.result.status = "ok"

IsText(v) == v.type = "str"

\* C26: a non-streaming handler (forward_chat_fast_api,
\* forward_instruct_fast_api) that returns, returns a dict whose only key is
\* response and whose value is the generated text, the generation having run
\* to completion: not a generator that has not run.
C26_NonStreamingResponseIsGeneratedText ==
    HandlerReturned({"forward_chat_fast_api", "forward_instruct_fast_api"}) =>
        /\ DOMAIN server.call.result.value = {"response"}
        /\ IsText(server.call.result.value.response)

\* C27: after fire has started the server process, end stops the server and
\* returns: a call of end that has reached join leads to end having returned
\* with the process ended.  (Without fire, end logs the warning, returns at
\* once and changes nothing.)
C27_EndAfterFireStopsAndReturns ==
    (server.call.op = "join") ~>
        (/\ server.call.op = "end"
         /\ server.process_uvicorn.some
         /\ server.procs[server.process_uvicorn.val] = "exited")

\* C28: with format_chat and format_instruct implemented, a request handled
\* before load has set the model fails with the assertion 'you should first
\* load model', on the streaming handlers and on the non-streaming handlers
\* alike; none returns a response.
C28_RequestBeforeLoadFailsAssertion ==
    (/\ server.call.op \in {"forward_chat_fast_api", "forward_instruct_fast_api", "process_gradio_chat", "process_gradio_instruct"}
     /\ server.formats
     /\ ~server.call.loaded) =>
        server.call.result.status = "AssertionError"


(***************************************************************************)
(* Properties of the generation loop (SpecGenerate)                        *)
(***************************************************************************)
UnpaddedPrompt == fwd.op = "generate" /\ ~fwd.mask_given /\ fwd.seq_length <= fwd.max_length /\ fwd.prepared.status = "ok"

\* C29: for an unpadded prompt of length s given without attention_mask,
\* prepare_inputs_for_generation yields position_ids 0..s-1, an all-ones
\* attention mask of length max_length and a fresh cache, and after every
\* iteration of the loop the position id update_inputs_for_generation leaves
\* for the next single-token step is the cache cursor before that step:
\* s after the prompt, then s+1, ...
C29_DecodePositionIsCacheCursor ==
    UnpaddedPrompt =>
        /\ fwd.prepared.position_ids = Arange(fwd.seq_length)
        /\ fwd.prepared.attention_mask = OnesMask(2, 1, fwd.max_length)
        /\ Cursor(fwd.prepared.past_key_values) = 0
        /\ fwd.steps > 0 =>
              /\ fwd.result.status = "ok"
              /\ fwd.model_kwargs.position_ids = [i \in {0} |-> Cursor(fwd.model_kwargs.past_key_values)]
              /\ Cursor(fwd.model_kwargs.past_key_values) = fwd.seq_length + fwd.steps - 1

====
